---- MODULE Spec2Model ----
(***************************************************************************)
(* Model of the email secretary backend (src/backend/app):                 *)
(*   - AnalyzerAgent.analyze_email and its deterministic fallback,         *)
(*   - DatabaseService / EmailCacheService (email cache and sync pass),    *)
(*   - SupervisorAgent.coordinate_agents (parallel and sequential mode),   *)
(*   - SupervisorAgent.route_email,                                        *)
(*   - ResponderAgent.generate_reply and the reply endpoint,               *)
(*   - FilteringService.apply_filtering_rule / should_filter_email.        *)
(* Each subsystem has its own specification over the shared variables:     *)
(*   SpecAnalyzer, SpecCache, SpecDb, SpecSupervisor, SpecRouter,          *)
(*   SpecReply, SpecFilter, SpecById.                                      *)
(*                                                                         *)
(* Conventions.  A Python call that may raise is an operator returning a   *)
(* record with a field "raised".  Text is a sequence of words; the         *)
(* Japanese keywords of the source are written in romaji:                  *)
(*   kinkyu = 緊急, shikyu = 至急, sanko = 参考, joho = 情報,              *)
(*   henshin = 返信, kaito = 回答, kakunin = 確認.                         *)
(***************************************************************************)
EXTENDS Integers, Sequences, FiniteSets, Bags, TLC

VARIABLES
    azEmail,      \* analyze_email: the email argument
    azGateway,    \* analyze_email: what the LLM gateway does on this call
    azPc,         \* "idle" | "returned" | "raised"
    azResult      \* analyze_email: the returned dict

azVars == <<azEmail, azGateway, azPc, azResult>>

VARIABLES
    now,          \* the clock (datetime.utcnow / datetime.now), in ticks; the
                  \* calls of one behaviour are made at the same instant
    mailbox,      \* the provider's inbox: message id -> Date header, or NoDate
    rules,        \* the active filtering rules, in stored order
    cache,        \* table email_cache: a bag of rows
    pass,         \* the get_recent_emails_cached calls in flight, by caller
    dbRet         \* what the last direct cache_email call returned

cacheVars == <<now, mailbox, rules, cache, pass, dbRet>>

VARIABLES
    supDecision,    \* coordinate_agents: the routing_decision argument
    supPc,          \* "idle" | "gather" | "seq" | "synth" | "done"
                    \* | "raised" (the aggregation raised)
                    \* | "failed" (the synthesis call raised)
    supTasks,       \* the agent runs started by the call, in order of start
    supIdx,         \* sequential mode: position in agents_to_use
    supResults,     \* the local dict results
    supSynthInput,  \* the agent_results handed to _generate_final_recommendation
    supFinal        \* final_recommendation

supVars == <<supDecision, supPc, supTasks, supIdx, supResults, supSynthInput,
             supFinal>>

VARIABLES
    rtLlm,          \* route_email: what the LLM gateway does on this call
    rtPc,           \* "idle" | "llm" | "done" | "raised"
    rtResult        \* route_email: the returned routing decision

rtVars == <<rtLlm, rtPc, rtResult>>

VARIABLES
    rpIn,           \* create_reply_draft: the email id and what the provider
                    \* and the LLM gateway do on this call
    rpPc,           \* "idle" | "generate" | "rejected" | "done"
    rpReply,        \* what generate_reply returned
    rpDrafts,       \* the drafts created at the provider
    rpResponse      \* the HTTP response of the endpoint

rpVars == <<rpIn, rpPc, rpReply, rpDrafts, rpResponse>>

VARIABLES
    fltRet,         \* what the last apply_filtering_rule returned
    fltEmail,       \* should_filter_email: the email argument
    fltResult       \* should_filter_email: the returned value, with the
                    \* rules the call read

fltVars == <<fltRet, fltEmail, fltResult>>

VARIABLE
    byId            \* the last get_email_by_id_cached call of a caller that
                    \* keeps what it returned: argument, result, provider
                    \* calls made and the table it found

VARIABLE
    submitted       \* history: message id -> the number of analyze_email
                    \* calls made for it by get_recent_emails_cached

VARIABLES
    corrections,    \* collection email_corrections, in order of insertion
    profiles,       \* collection recipient_profiles, in order of insertion
    lsRet           \* the last LearningService call: arguments, what the
                    \* store did, the value returned and the collections it
                    \* found

lsVars == <<corrections, profiles, lsRet>>

VARIABLES
    suggestions,    \* collection filtering_suggestions, in order of insertion
    paRet,          \* the last analyze_email_patterns call: arguments, what
                    \* the LLM did, the outcome and the collection it found
    mtRet,          \* the last suggest_meeting_times call: the day it was
                    \* made on, what the LLM did and the list returned
    mgRet,          \* the last manage_attachments call: the attachments,
                    \* what the LLM did and the dict returned
    device_states,  \* adk/routes.py: the module-level dict device_states
    connected,      \* adk_tutorial.py: the attribute connected of a device
    supCalls,       \* coordinate_agents calls that are over
    devRet          \* the last ADK request: endpoint, device id, command,
                    \* HTTP status and the dict it found

extraVars ==
    <<suggestions, paRet, mtRet, mgRet, device_states, connected, supCalls,
      devRet>>

moreVars == <<submitted, lsVars, extraVars>>

\* The subsystems other than the analyzer, the cache and coordinate_agents
restVars == <<rtVars, rpVars, fltVars, byId, moreVars>>

vars == <<azVars, cacheVars, supVars, restVars>>

-----------------------------------------------------------------------------
(* Bounds *)

MaxSubjectLen == 2

\* Suggestions in the store when a pattern analysis starts
MaxSuggestions == 2

\* coordinate_agents calls after the first one
MaxCalls == 1

\* Names listed by the routing decisions of consecutive calls
MaxListed == 2

\* The last day on which suggest_meeting_times is called
MaxDay == 13

\* Attachments of an email
MaxAttachments == 2

\* Corrections the correction store can hold
MaxCorrections == 2

\* Messages the provider's inbox can hold
NumMail == 2

\* Clock resolution: ticks per calendar day
TicksPerDay == 2

\* Callers ask for limit in 0..MaxLimit or for the default
MaxLimit == 2

\* Longest agents_to_use list of a routing decision
MaxAgents == 3

\* Rules a store holds at most
MaxRules == 2

-----------------------------------------------------------------------------
(* schemas/email.py *)

Priorities == {"urgent", "normal", "fyi"}

Categories == {"reply_needed", "confirm_only", "info"}

Raised == [raised |-> TRUE]

Ok(v) == [raised |-> FALSE, val |-> v]

\* Priority(value): the Enum constructor raises ValueError outside the members
PriorityEnum(v) == IF v \in Priorities THEN Ok(v) ELSE Raised

\* Category(value)
CategoryEnum(v) == IF v \in Categories THEN Ok(v) ELSE Raised

-----------------------------------------------------------------------------
(* Text *)

SubjectWords ==
    {"kinkyu", "urgent", "URGENT", "asap", "shikyu", "fyi", "sanko", "joho",
     "henshin", "reply", "kaito", "kakunin", "hello"}

SeqsUpTo(S, n) == UNION {[1..k -> S] : k \in 0..n}

Subjects == SeqsUpTo(SubjectWords, MaxSubjectLen)

\* str.lower()
LowerWord(w) ==
    CASE w = "URGENT" -> "urgent"
      [] w = "NOREPLY" -> "noreply"
      [] OTHER -> w

Lower(text) == [i \in DOMAIN text |-> LowerWord(text[i])]

\* keyword in text
Contains(text, keyword) == \E i \in DOMAIN text : text[i] = keyword

\* any(keyword in text for keyword in keywords)
ContainsAny(text, keywords) == \E k \in keywords : Contains(text, k)

-----------------------------------------------------------------------------
(* agents/analyzer.py *)

UrgentKeywords == {"kinkyu", "urgent", "asap", "shikyu"}

FyiKeywords == {"fyi", "sanko", "joho"}

ReplyKeywords == {"henshin", "reply", "kaito", "kakunin"}

InfoKeywords == {"joho", "fyi", "sanko"}

FallbackPriority(subject) ==
    IF ContainsAny(Lower(subject), UrgentKeywords) THEN "urgent"
    ELSE IF ContainsAny(Lower(subject), FyiKeywords) THEN "fyi"
    ELSE "normal"

\* Mutant: the category test without the keyword kakunin
FallbackCategoryNoKakunin(subject) ==
    IF ContainsAny(Lower(subject), ReplyKeywords \ {"kakunin"}) THEN "reply_needed"
    ELSE IF ContainsAny(Lower(subject), InfoKeywords) THEN "info"
    ELSE "confirm_only"

\* Lines 174-178
FallbackCategory(subject) ==
    IF ContainsAny(Lower(subject), ReplyKeywords) THEN "reply_needed"
    ELSE IF ContainsAny(Lower(subject), InfoKeywords) THEN "info"
    ELSE "confirm_only"

\* The dict analyze_email returns: EmailSummary fields that the callers read
AnalysisDict(email, priority, category, ai) ==
    [success |-> TRUE,
     ai_analyzed |-> ai,
     email_summary |-> [id |-> email.id, date |-> email.date,
                        priority |-> priority, category |-> category]]

\* _create_fallback_analysis: no LLM call; the EmailSummary constructor
\* validates priority and category against the enumerations
CreateFallbackAnalysis(email) ==
    LET priority == PriorityEnum(FallbackPriority(email.subject))
        category == CategoryEnum(FallbackCategory(email.subject))
    IN  IF priority.raised \/ category.raised THEN Raised
        ELSE Ok(AnalysisDict(email, priority.val, category.val, FALSE))

Absent == "<absent>"

\* What the model may answer for one JSON field: a member, free text, null or
\* the key left out
PriorityAnswers == Priorities \cup {"high", "null", Absent}

CategoryAnswers == Categories \cup {"spam", "null", Absent}

SummaryAnswers == {"text", "null", Absent}

\* response.content of the analysis call
AnalysisContents ==
    {[form |-> "garbage"], [form |-> "list"]} \cup
    [form : {"dict"}, priority : PriorityAnswers, category : CategoryAnswers,
     summary : SummaryAnswers]

\* The gateway on one analysis call: not configured, ainvoke raises, or a
\* response
AnalysisGateways ==
    {[ai_enabled |-> FALSE], [ai_enabled |-> TRUE, call |-> "raise"]} \cup
    [ai_enabled : {TRUE}, call : {"response"}, content : AnalysisContents]

\* json.loads
JsonLoads(content) == IF content.form = "garbage" THEN Raised ELSE Ok(content)

\* dict.get(key, default); on a list it raises AttributeError
DictGet(value, key, default) ==
    IF value.form # "dict" THEN Raised
    ELSE IF value[key] = Absent THEN Ok(default)
    ELSE Ok(value[key])

\* The try block of analyze_email (lines 71-95): raises stand for any
\* Exception inside it
AnalyzeWithLLM(email, gateway) ==
    IF gateway.call = "raise" THEN Raised
    ELSE LET analysis_result == JsonLoads(gateway.content)
         IN  IF analysis_result.raised THEN Raised
             ELSE LET summary == DictGet(analysis_result.val, "summary", "")
                      p == DictGet(analysis_result.val, "priority", "normal")
                      c == DictGet(analysis_result.val, "category", "confirm_only")
                  IN  IF summary.raised \/ p.raised \/ c.raised THEN Raised
                      ELSE LET priority == PriorityEnum(p.val)
                               category == CategoryEnum(c.val)
                           IN  IF priority.raised \/ category.raised
                                  \/ summary.val = "null"
                               THEN Raised
                               ELSE Ok(AnalysisDict(email, priority.val,
                                                    category.val, TRUE))

\* Mutant: the except clause re-raises instead of falling back
AnalyzeEmailNoFallback(email, gateway) ==
    IF ~gateway.ai_enabled THEN CreateFallbackAnalysis(email)
    ELSE AnalyzeWithLLM(email, gateway)

\* analyze_email
AnalyzeEmail(email, gateway) ==
    IF ~gateway.ai_enabled THEN CreateFallbackAnalysis(email)
    ELSE LET r == AnalyzeWithLLM(email, gateway)
         IN  IF r.raised THEN CreateFallbackAnalysis(email) ELSE r

-----------------------------------------------------------------------------
(* Time and the provider's inbox *)

\* days_back=14 (email_cache_service.py lines 21, 31, 58)
RetentionDays == 14

\* min(limit, 10) (email_cache_service.py line 22)
FastPathMin == 10

\* limit: int = 20 (email_cache_service.py line 16)
DefaultLimit == 20

\* max_results=200 (email_cache_service.py lines 28, 31)
SyncMaxResults == 200

Window == RetentionDays * TicksPerDay

StartTime == Window + 2 * TicksPerDay

\* None where a datetime is expected (database_service.py line 48)
NoDate == 0 - 1

MailIds == 1..NumMail

\* Rows left in the table by earlier runs: messages no longer in the inbox
ArchiveIds == (NumMail + 1)..(NumMail + FastPathMin)

\* An id no message has
UnknownId == NumMail + FastPathMin + 1

\* Date headers: two in the first calendar day (older than the window), two
\* in the day before StartTime's
OldA == StartTime - Window - 2 * TicksPerDay

OldB == OldA + 1

NewA == StartTime - TicksPerDay

NewB == StartTime - 1

MailDates == {OldA, OldB, NewA, NewB}

Limits == (0..MaxLimit) \cup {DefaultLimit}

\* strftime('%Y/%m/%d'): the calendar day of an instant
DayOf(t) == t \div TicksPerDay

\* now - timedelta(days=days_back)
Cutoff(t, days_back) == t - days_back * TicksPerDay

Min(a, b) == IF a <= b THEN a ELSE b

\* The message with identifier id as _get_email_content builds it; sender,
\* subject and body are fixed per message
EmailOf(id) ==
    [id |-> id,
     date |-> mailbox[id],
     from_email |-> IF id = 1 THEN <<"noreply">> ELSE <<"alice">>,
     subject |-> IF id = 1 THEN <<"shikyu", "kakunin">> ELSE <<"hello">>,
     body |-> <<"hello">>]

\* The first n elements of a sequence
Take(seq, n) == SubSeq(seq, 1, Min(n, Len(seq)))

\* The provider lists newest first (ties by id)
Newest(ids) ==
    CHOOSE i \in ids : \A j \in ids :
        \/ mailbox[i] > mailbox[j]
        \/ mailbox[i] = mailbox[j] /\ i <= j

RECURSIVE NewestFirst(_)
NewestFirst(ids) ==
    IF ids = {} THEN <<>>
    ELSE <<Newest(ids)>> \o NewestFirst(ids \ {Newest(ids)})

\* messages().list(q="in:inbox after:<day>", maxResults=n): the inbox
\* messages of that calendar day or later
ListAfter(day, max_results) ==
    Take(NewestFirst({i \in MailIds : mailbox[i] # NoDate /\ DayOf(mailbox[i]) >= day}),
         max_results)

\* The emails of the listed messages, without those whose
\* _get_email_content returned None
Fetch(listed, failing) ==
    LET kept == SelectSeq(listed, LAMBDA i : i \notin failing)
    IN  [k \in DOMAIN kept |-> EmailOf(kept[k])]

-----------------------------------------------------------------------------
(* services/gmail_service.py *)

\* Mutant: the Date comparison of line 161 left out
GetEmailsSinceDateNoCompare(since_date, max_results, outcome, failing) ==
    IF outcome = "unauthenticated" THEN Raised
    ELSE IF outcome = "http_error" THEN Ok(<<>>)
    ELSE Ok(Fetch(ListAfter(DayOf(since_date), max_results), failing))

\* get_emails_since_date
GetEmailsSinceDate(since_date, max_results, outcome, failing) ==
    IF outcome = "unauthenticated" THEN Raised
    ELSE IF outcome = "http_error" THEN Ok(<<>>)
    ELSE Ok(SelectSeq(Fetch(ListAfter(DayOf(since_date), max_results), failing),
                      LAMBDA e : e.date > since_date))

\* get_recent_emails_optimized, its 'emails' entry
GetRecentEmailsOptimized(days_back, max_results, outcome, failing) ==
    IF outcome = "unauthenticated" THEN Raised
    ELSE IF outcome = "http_error" THEN Ok(<<>>)
    ELSE Ok(Fetch(ListAfter(DayOf(Cutoff(now, days_back)), Min(max_results, 500)),
                  failing))

\* _get_email_content(message_id) called directly
GetEmailContent(id, outcome) ==
    IF outcome # "ok" \/ id \notin MailIds THEN NoDate
    ELSE mailbox[id]

GmailOutcomes == {"ok", "http_error", "unauthenticated"}

\* The messages whose _get_email_content fails during one listing: at most one
FailingSets == {{}} \cup {{i} : i \in MailIds}

-----------------------------------------------------------------------------
(* services/filtering_service.py *)

\* _email_matches_filter
EmailMatchesFilter(email, filter_config) ==
    LET hit(text) == \E pat \in filter_config.patterns :
                         Contains(Lower(text), LowerWord(pat))
    IN  CASE filter_config.filter_type = "sender" -> hit(email.from_email)
          [] filter_config.filter_type = "subject" -> hit(email.subject)
          [] filter_config.filter_type = "content" -> hit(email.body)
          [] filter_config.filter_type = "combined" ->
                 hit(email.from_email \o email.subject \o email.body)
          [] OTHER -> FALSE

\* A stored filter_config without the keys patterns and filter_type:
\* _email_matches_filter raises KeyError on it
MatcherRaises(filter_config) == filter_config.filter_type = "absent"

\* should_filter_email: the action of the first matching rule; an exception
\* raised on the way (lines 150-152) gives False
RECURSIVE ShouldFilterFrom(_, _, _)
ShouldFilterFrom(email, rs, i) ==
    IF i > Len(rs) THEN FALSE
    ELSE IF MatcherRaises(rs[i]) THEN FALSE
    ELSE IF EmailMatchesFilter(email, rs[i]) THEN rs[i].action = "exclude"
    ELSE ShouldFilterFrom(email, rs, i + 1)

ShouldFilterEmail(email) == ShouldFilterFrom(email, rules, 1)

\* Rule stores of the cache specification
ExcludeNoreply ==
    [filter_type |-> "sender", patterns |-> {"noreply"}, action |-> "exclude"]

RuleStores == {<<>>, <<ExcludeNoreply>>}

\* The configs in the shape the conversion prompt asks for (lines 108-113)
FilterTypes == {"sender", "subject", "content", "combined"}

FilterActions == {"exclude", "include"}

PatternLists == {{"NOREPLY"}, {"hello"}, {"alice", "shikyu"}}

StructuredConfigs ==
    [filter_type : FilterTypes, patterns : PatternLists, action : FilterActions]

\* Valid JSON that does not have that shape: an object without the keys,
\* an object with an unknown filter_type and action
MalformedConfigs ==
    {[filter_type |-> "absent", patterns |-> {}, action |-> "absent"],
     [filter_type |-> "regex", patterns |-> {"hello"}, action |-> "delete"]}

\* What the conversion call does: ainvoke raises, or the content parses or not
FilterLlms ==
    [outcome : {"raise", "garbage"}, content : {ExcludeNoreply}]
    \cup [outcome : {"json"}, content : StructuredConfigs \cup MalformedConfigs]

\* apply_filtering_rule, lines 100-133: json.loads(response.content) is
\* stored as it is
ApplyFilteringRule(store, llm) ==
    IF llm.outcome = "json"
    THEN [rules |-> Append(store, llm.content), ret |-> TRUE]
    ELSE [rules |-> store, ret |-> FALSE]

\* One call apply_filtering_rule(description)
FltApply ==
    \E llm \in FilterLlms :
        /\ Len(rules) < MaxRules
        /\ LET r == ApplyFilteringRule(rules, llm)
           IN  rules' = r.rules /\ fltRet' = [called |-> TRUE, ret |-> r.ret]
        /\ UNCHANGED <<now, mailbox, cache, pass, dbRet, fltEmail, fltResult>>

\* One call should_filter_email(email)
FltCheck ==
    \E id \in MailIds :
        /\ fltEmail' = EmailOf(id)
        /\ fltResult' = [called |-> TRUE, store |-> rules,
                         ret |-> ShouldFilterEmail(EmailOf(id))]
        /\ UNCHANGED <<cacheVars, fltRet>>

-----------------------------------------------------------------------------
(* services/database_service.py *)

NoAnalysis == [success |-> FALSE]

\* EmailCache(...) as cache_email builds it
NewRow(email, analysis_result) ==
    [id |-> email.id,
     date |-> email.date,
     processed |-> analysis_result # NoAnalysis,
     analysis_result |-> analysis_result]

NoRow == [id |-> UnknownId, date |-> NoDate, processed |-> FALSE,
          analysis_result |-> NoAnalysis]

\* The rows of the table, one per copy
Rows(table) == BagToSet(table)

\* query(EmailCache).filter(EmailCache.id == id).first()
FirstById(table, id) ==
    IF \E r \in Rows(table) : r.id = id
    THEN CHOOSE r \in Rows(table) : r.id = id
    ELSE NoRow

\* Mutant: cache_email without the lookup of lines 21-23 (on a table that
\* does not enforce the key)
CacheEmailNoLookup(table, email, analysis_result) ==
    [table |-> table (+) SetToBag({NewRow(email, analysis_result)}),
     ret |-> NewRow(email, analysis_result)]

\* Mutant: cache_email that replaces the table's content by the new row
CacheEmailTruncating(table, email, analysis_result) ==
    IF FirstById(table, email.id) # NoRow
    THEN [table |-> table, ret |-> FirstById(table, email.id)]
    ELSE [table |-> SetToBag({NewRow(email, analysis_result)}),
          ret |-> NewRow(email, analysis_result)]

\* cache_email: the table afterwards and the row returned
CacheEmail(table, email, analysis_result) ==
    IF FirstById(table, email.id) # NoRow
    THEN [table |-> table, ret |-> FirstById(table, email.id)]
    ELSE [table |-> table (+) SetToBag({NewRow(email, analysis_result)}),
          ret |-> NewRow(email, analysis_result)]

\* Number of rows with this identifier
RowCount(table, id) ==
    LET rs == {r \in Rows(table) : r.id = id}
        RECURSIVE Sum(_)
        Sum(S) == IF S = {} THEN 0
                  ELSE LET r == CHOOSE x \in S : TRUE
                       IN  CopiesIn(r, table) + Sum(S \ {r})
    IN  Sum(rs)

CachedIds(table) == {r.id : r \in Rows(table)}

\* order_by(EmailCache.date.desc()): newest first (ties by id)
NewestRow(rs) ==
    CHOOSE r \in rs : \A q \in rs :
        \/ r.date > q.date
        \/ r.date = q.date /\ r.id <= q.id

RECURSIVE RowsNewestFirst(_, _)
RowsNewestFirst(rs, n) ==
    IF rs = {} \/ n <= 0 THEN <<>>
    ELSE <<NewestRow(rs)>> \o RowsNewestFirst(rs \ {NewestRow(rs)}, n - 1)

\* Mutant: get_cached_emails without the cutoff filter
GetCachedEmailsNoCutoff(table, limit, days_back) ==
    RowsNewestFirst(Rows(table), limit)

\* get_cached_emails
GetCachedEmails(table, limit, days_back) ==
    RowsNewestFirst({r \in Rows(table) : r.date >= Cutoff(now, days_back)}, limit)

\* get_latest_email_date
GetLatestEmailDate(table) ==
    IF Rows(table) = {} THEN NoDate ELSE NewestRow(Rows(table)).date

-----------------------------------------------------------------------------
(* services/email_cache_service.py *)

PassIds == {1, 2}

IdlePass ==
    [pc |-> "idle", limit |-> 0, force_refresh |-> FALSE, fast |-> FALSE,
     in_window |-> 0, latest_date |-> NoDate, listing |-> "none", new_emails |-> <<>>,
     filtered_out |-> {}, idx |-> 1, mail_calls |-> 0, llm_calls |-> 0,
     result |-> <<>>]

\* The emails a pass has handed to analyze_email and cache_email so far
Analyzed(p) == {pass[p].new_emails[k] : k \in 1..(pass[p].idx - 1)}

\* History: the number of rows inside the retention window
InWindowCount ==
    Cardinality({r \in Rows(cache) : r.date >= Cutoff(now, RetentionDays)})

\* What FilteringService() does inside _filter_emails: built, or raising
\* (vector store or LLM client unavailable)
FilteringOutcomes == {"ok", "unavailable"}

\* Mutant: _filter_emails that keeps every email
FilterEmailsKeepAll(emails, filtering) == emails

\* _filter_emails, lines 112-127: on an exception the emails are returned
\* unfiltered
FilterEmails(emails, filtering) ==
    IF filtering = "ok"
    THEN SelectSeq(emails, LAMBDA e : ~ShouldFilterEmail(e))
    ELSE emails

\* History: the identifiers for which should_filter_email answered True
FilteredOut(emails, filtering) ==
    IF filtering = "ok"
    THEN {emails[k].id : k \in {j \in DOMAIN emails : ShouldFilterEmail(emails[j])}}
    ELSE {}

\* _convert_cached_to_summaries: one summary per row, in order
ConvertCachedToSummaries(rows) == [k \in DOMAIN rows |-> rows[k].id]

\* Mutant: the threshold of line 22 compared against limit alone
FastPathHitNoMin(limit, force_refresh) ==
    LET cached_emails == GetCachedEmails(cache, limit, RetentionDays)
    IN  /\ ~force_refresh
        /\ cached_emails # <<>>
        /\ Len(cached_emails) >= limit

\* Lines 20-22: the cache-hit test
FastPathHit(limit, force_refresh) ==
    LET cached_emails == GetCachedEmails(cache, limit, RetentionDays)
    IN  /\ ~force_refresh
        /\ cached_emails # <<>>
        /\ Len(cached_emails) >= Min(limit, FastPathMin)

\* get_recent_emails_cached, lines 20-23: answered from the cache
GetRecentFast(p) ==
    \E limit \in Limits, force_refresh \in BOOLEAN :
        /\ pass[p].pc = "idle"
        /\ FastPathHit(limit, force_refresh)
        /\ pass' = [pass EXCEPT ![p] =
               [IdlePass EXCEPT
                   !.pc = "done", !.limit = limit,
                   !.force_refresh = force_refresh, !.fast = TRUE,
                   !.in_window = InWindowCount,
                   !.result = ConvertCachedToSummaries(
                                  GetCachedEmails(cache, limit, RetentionDays))]]
        /\ UNCHANGED <<now, mailbox, rules, cache, dbRet>>

\* get_recent_emails_cached, lines 25-34: the fetch of a sync pass, up to the
\* first analysis
GetRecentSync(p) ==
    \E limit \in Limits, force_refresh \in BOOLEAN,
       outcome \in GmailOutcomes, failing \in FailingSets,
       filtering \in FilteringOutcomes :
        /\ pass[p].pc = "idle"
        /\ ~FastPathHit(limit, force_refresh)
        /\ outcome # "ok" => failing = {}
        \* _filter_emails is not reached when the fetch raises
        /\ outcome = "unauthenticated" => filtering = "ok"
        /\ LET latest_date == GetLatestEmailDate(cache)
               fetched ==
                   IF latest_date # NoDate
                   THEN GetEmailsSinceDate(latest_date, SyncMaxResults,
                                           outcome, failing)
                   ELSE GetRecentEmailsOptimized(RetentionDays, SyncMaxResults,
                                                 outcome, failing)
               started ==
                   [IdlePass EXCEPT
                       !.limit = limit, !.force_refresh = force_refresh,
                       !.in_window = InWindowCount,
                       !.latest_date = latest_date,
                       !.listing = IF latest_date # NoDate THEN "since"
                                   ELSE "recent",
                       !.mail_calls = 1]
           IN  pass' = [pass EXCEPT ![p] =
                   IF fetched.raised
                   THEN [started EXCEPT !.pc = "raised"]
                   ELSE [started EXCEPT
                            !.pc = "loop",
                            !.new_emails = FilterEmails(fetched.val, filtering),
                            !.filtered_out = FilteredOut(fetched.val, filtering)]]
        /\ UNCHANGED <<now, mailbox, rules, cache, dbRet>>

\* The gateway outcomes drawn for the analyses of a sync pass
SyncGateways ==
    {[ai_enabled |-> FALSE],
     [ai_enabled |-> TRUE, call |-> "raise"],
     [ai_enabled |-> TRUE, call |-> "response",
      content |-> [form |-> "dict", priority |-> "urgent",
                   category |-> "info", summary |-> "text"]]}

\* Mutant: an email whose LLM call raised is skipped
AnalyzeAndCacheSkipping(table, email, gateway) ==
    IF gateway.ai_enabled /\ gateway.call = "raise" THEN table
    ELSE CacheEmail(table, email, AnalyzeEmail(email, gateway).val).table

\* Lines 36-56, the body of the loop: the table after analyze_email and
\* cache_email, the except branch caching the fallback analysis
AnalyzeAndCache(table, email, gateway) ==
    LET analysis_result == AnalyzeEmail(email, gateway)
        fallback_result == CreateFallbackAnalysis(email)
        stored == IF analysis_result.raised THEN fallback_result.val
                  ELSE analysis_result.val
    IN  CacheEmail(table, email, stored).table

\* Lines 35-56: one iteration of the loop over new_emails
AnalyzeNext(p) ==
    \E gateway \in SyncGateways :
        /\ pass[p].pc = "loop"
        /\ pass[p].idx <= Len(pass[p].new_emails)
        /\ cache' = AnalyzeAndCache(cache, pass[p].new_emails[pass[p].idx],
                                    gateway)
        /\ pass' = [pass EXCEPT
               ![p].idx = @ + 1,
               ![p].llm_calls = @ + (IF gateway.ai_enabled THEN 1 ELSE 0)]
        /\ UNCHANGED <<now, mailbox, rules, dbRet>>

\* Lines 58-59: the reconciled window is read back and returned
FinishPass(p) ==
    /\ pass[p].pc = "loop"
    /\ pass[p].idx > Len(pass[p].new_emails)
    /\ pass' = [pass EXCEPT
           ![p].pc = "done",
           ![p].result = ConvertCachedToSummaries(
                             GetCachedEmails(cache, pass[p].limit, RetentionDays))]
    /\ UNCHANGED <<now, mailbox, rules, cache, dbRet>>

\* The caller has the answer (or the exception); the next call may come
ReturnPass(p) ==
    /\ pass[p].pc \in {"done", "raised"}
    /\ pass' = [pass EXCEPT ![p] = IdlePass]
    /\ UNCHANGED <<now, mailbox, rules, cache, dbRet>>

\* return None
NullEmail == [null |-> TRUE]

\* get_email_content_by_id: the EmailContent rebuilt from a row
RowContent(row) == [null |-> FALSE, id |-> row.id, date |-> row.date]

\* Mutant: the fetched email is returned without being cached
GetEmailByIdCachedNoStore(table, id, outcome) ==
    IF FirstById(table, id) # NoRow
    THEN [table |-> table, ret |-> RowContent(FirstById(table, id)),
          mail_calls |-> 0]
    ELSE IF GetEmailContent(id, outcome) # NoDate
    THEN [table |-> table,
          ret |-> [null |-> FALSE, id |-> id, date |-> EmailOf(id).date],
          mail_calls |-> 1]
    ELSE [table |-> table, ret |-> NullEmail, mail_calls |-> 1]

\* get_email_by_id_cached, lines 94-110: the table afterwards, the value
\* returned and the number of _get_email_content calls
GetEmailByIdCached(table, id, outcome) ==
    IF FirstById(table, id) # NoRow
    THEN [table |-> table, ret |-> RowContent(FirstById(table, id)),
          mail_calls |-> 0]
    ELSE IF GetEmailContent(id, outcome) # NoDate
    THEN [table |-> CacheEmail(table, EmailOf(id), NoAnalysis).table,
          ret |-> [null |-> FALSE, id |-> id, date |-> EmailOf(id).date],
          mail_calls |-> 1]
    ELSE [table |-> table, ret |-> NullEmail, mail_calls |-> 1]

\* get_email_by_id_cached; a call that leaves the table as it is (a cached
\* id, a failed fetch) is a stuttering step of this specification
GetEmailById ==
    \E id \in MailIds \cup {UnknownId}, outcome \in {"ok", "unauthenticated"} :
        /\ GetEmailByIdCached(cache, id, outcome).table # cache
        /\ cache' = GetEmailByIdCached(cache, id, outcome).table
        /\ UNCHANGED <<now, mailbox, rules, pass, dbRet>>

\* The identifiers a caller may ask for: at the provider, cached by an
\* earlier run, or unknown
ByIdArgs == MailIds \cup ArchiveIds \cup {UnknownId}

NoById ==
    [called |-> FALSE, id |-> UnknownId, outcome |-> "ok", ret |-> NullEmail,
     mail_calls |-> 0, before |-> EmptyBag]

\* get_email_by_id_cached, with what the caller gets back
ByIdCall ==
    \E id \in ByIdArgs, outcome \in GmailOutcomes :
        /\ LET r == GetEmailByIdCached(cache, id, outcome)
           IN  /\ cache' = r.table
               /\ byId' = [called |-> TRUE, id |-> id, outcome |-> outcome,
                           ret |-> r.ret, mail_calls |-> r.mail_calls,
                           before |-> cache]
        /\ UNCHANGED <<now, mailbox, rules, pass, dbRet>>

\* Rows of earlier runs: FastPathMin analysed messages inside the window
SeedRow(id) ==
    [id |-> id, date |-> NewA - 1, processed |-> TRUE,
     analysis_result |->
         AnalysisDict([id |-> id, date |-> NewA - 1], "normal", "confirm_only",
                      FALSE)]

SeedCache == SetToBag({SeedRow(id) : id \in ArchiveIds})

\* The arguments of direct cache_email calls
DbEmails ==
    [id : MailIds, date : {NewA, NewB}, from_email : {<<"alice">>},
     subject : {<<"hello">>}, body : {<<"hello">>}]

DbAnalyses(email) ==
    {NoAnalysis,
     AnalysisDict(email, "normal", "confirm_only", FALSE),
     AnalysisDict(email, "urgent", "info", TRUE)}

NoReturn ==
    [call |-> UnknownId, analysis |-> NoAnalysis, hit |-> FALSE, row |-> NoRow]

\* A direct call db_service.cache_email(db, email, analysis_result)
DbCacheEmail ==
    \E email \in DbEmails : \E analysis_result \in DbAnalyses(email) :
        /\ cache' = CacheEmail(cache, email, analysis_result).table
        /\ dbRet' = [call |-> email.id,
                     analysis |-> analysis_result,
                     hit |-> FirstById(cache, email.id) # NoRow,
                     row |-> CacheEmail(cache, email, analysis_result).ret]
        /\ UNCHANGED <<now, mailbox, rules, pass>>

-----------------------------------------------------------------------------
(* agents/supervisor.py *)

\* The keys of agent_instances
AgentNames == {"analyzer", "responder", "manager"}

\* The names a routing decision may list: route_email returns whatever JSON
\* the model answered
ListedNames == AgentNames \cup {"archiver"}

\* routing_decision: has_agents tells whether the key agents_to_use is there
Decisions ==
    [has_agents : {TRUE}, agents_to_use : SeqsUpTo(ListedNames, MaxAgents),
     parallel_execution : BOOLEAN]
    \cup [has_agents : {FALSE}, agents_to_use : {<<>>},
          parallel_execution : BOOLEAN]

\* routing_decision.get("agents_to_use", ["analyzer"])
AgentsToUse(decision) ==
    IF decision.has_agents THEN decision.agents_to_use ELSE <<"analyzer">>

\* One run of an agent: pending while awaited, then returned or raised
Task(agent) == [agent |-> agent, state |-> "pending"]

\* What run k of an agent hands back: its result dict, or the exception
ResultOf(tasks, k) ==
    [kind |-> IF tasks[k].state = "raised" THEN "exception" ELSE "result",
     agent |-> tasks[k].agent, run |-> k]

\* {"success": False, "error": str(e)}
ErrorEntry(outcome) == [outcome EXCEPT !.kind = "error"]

\* The entry stored for an outcome (lines 98-104, 117-122)
Entry(outcome) ==
    IF outcome.kind = "exception" THEN ErrorEntry(outcome) ELSE outcome

NoResults == <<>>

\* results[agent_name] = entry
Put(results, agent_name, entry) ==
    [n \in DOMAIN results \cup {agent_name} |->
        IF n = agent_name THEN entry ELSE results[n]]

\* Lines 84-93: one coroutine per listed name that is a key of agent_instances
ParallelTasks(agents_to_use) ==
    LET known == SelectSeq(agents_to_use, LAMBDA n : n \in AgentNames)
    IN  [k \in DOMAIN known |-> Task(known[k])]

\* Mutant: a join that returns as soon as one task is done
GatherReadyFirst(tasks) ==
    tasks = <<>> \/ \E k \in DOMAIN tasks : tasks[k].state # "pending"

\* await asyncio.gather(*tasks, ...) returns when every task is done
GatherReady(tasks) == \A k \in DOMAIN tasks : tasks[k].state # "pending"

\* Mutant: gather without return_exceptions: the first exception propagates
GatherPropagating(tasks) ==
    IF \E k \in DOMAIN tasks : tasks[k].state = "raised" THEN Raised
    ELSE Ok([k \in DOMAIN tasks |-> ResultOf(tasks, k)])

\* asyncio.gather(*tasks, return_exceptions=True): one outcome per task, in
\* the order of tasks
Gather(tasks) == Ok([k \in DOMAIN tasks |-> ResultOf(tasks, k)])

\* Lines 97-104: agent_results[i] is stored under the i-th listed name; an
\* index past the end of agent_results raises IndexError with the entries
\* stored so far
RECURSIVE AggregateFrom(_, _, _, _)
AggregateFrom(agents_to_use, i, agent_results, results) ==
    IF i > Len(agents_to_use) THEN [raised |-> FALSE, results |-> results]
    ELSE IF i > Len(agent_results) THEN [raised |-> TRUE, results |-> results]
    ELSE AggregateFrom(agents_to_use, i + 1, agent_results,
                       Put(results, agents_to_use[i], Entry(agent_results[i])))

\* Mutant: the sequential loop walks the fixed order analyzer, responder,
\* manager over the listed agents
SeqOrderFixed(agents_to_use) ==
    SelectSeq(<<"analyzer", "responder", "manager">>,
              LAMBDA n : \E i \in DOMAIN agents_to_use : agents_to_use[i] = n)

\* for agent_name in agents_to_use (line 106)
SeqOrder(agents_to_use) == agents_to_use

\* The next position at or after i whose name is a key of agent_instances
\* (line 107), or 0
NextKnown(order, i) ==
    IF \E j \in i..Len(order) : order[j] \in AgentNames
    THEN CHOOSE j \in i..Len(order) :
             /\ order[j] \in AgentNames
             /\ \A h \in i..(j - 1) : order[h] \notin AgentNames
    ELSE 0

\* Mutant: no try/except around the awaited agent: the exception leaves the
\* loop
SeqRecordUncaught(results, agent_name, outcome) ==
    IF outcome.kind = "exception" THEN [raised |-> TRUE, results |-> results]
    ELSE [raised |-> FALSE, results |-> Put(results, agent_name, outcome)]

\* Lines 109-122: the result, or the caught exception, is stored under the
\* agent's name
SeqRecord(results, agent_name, outcome) ==
    [raised |-> FALSE, results |-> Put(results, agent_name, Entry(outcome))]

\* _generate_final_recommendation, lines 150-159
DefaultRecommendation ==
    [recommended_actions |-> <<"review">>, priority_level |-> "normal",
     summary |-> "done", next_steps |-> "check"]

NoRecommendation == [recommended_actions |-> <<>>]

\* What the synthesis call does: ainvoke raises, or the content parses or not
SynthesisOutcomes == {"raise", "garbage", "json"}

\* json.loads(response.content) is returned as it is: a content with one of
\* the four fields only
ParsedRecommendation == [recommended_actions |-> <<"reply">>]

\* A content in the shape the prompt asks for
FullRecommendation ==
    [recommended_actions |-> <<"reply", "file">>, priority_level |-> "urgent",
     summary |-> "sum", next_steps |-> "next"]

\* The JSON contents the model may answer
SynthesisContents == {FullRecommendation, ParsedRecommendation}

\* coordinate_agents in parallel mode, up to the await of gather
SupCallParallel ==
    /\ supPc = "idle"
    /\ supDecision.parallel_execution
    /\ supTasks' = ParallelTasks(AgentsToUse(supDecision))
    /\ supPc' = "gather"
    /\ UNCHANGED <<supDecision, supIdx, supResults, supSynthInput, supFinal>>

\* One gathered agent returns or raises
SupTaskDone ==
    \E k \in DOMAIN supTasks, state \in {"returned", "raised"} :
        /\ supPc = "gather"
        /\ supTasks[k].state = "pending"
        /\ supTasks' = [supTasks EXCEPT ![k].state = state]
        /\ UNCHANGED <<supDecision, supPc, supIdx, supResults, supSynthInput,
                       supFinal>>

\* gather returns; lines 97-104 and the start of the synthesis call
SupGathered ==
    /\ supPc = "gather"
    /\ GatherReady(supTasks)
    /\ LET agent_results == Gather(supTasks)
           agg == IF agent_results.raised
                  THEN [raised |-> TRUE, results |-> supResults]
                  ELSE AggregateFrom(AgentsToUse(supDecision), 1,
                                     agent_results.val, supResults)
       IN  /\ supResults' = agg.results
           /\ supPc' = IF agg.raised THEN "raised" ELSE "synth"
           /\ supSynthInput' = IF agg.raised THEN supSynthInput ELSE agg.results
    /\ UNCHANGED <<supDecision, supTasks, supIdx, supFinal>>

\* The sequential loop from position i: the next agent is awaited, or the
\* loop is over and the synthesis call starts
SeqProceed(i, results, tasks) ==
    LET order == SeqOrder(AgentsToUse(supDecision))
        j == NextKnown(order, i)
    IN  IF j = 0
        THEN /\ supPc' = "synth"
             /\ supSynthInput' = results
             /\ supTasks' = tasks
             /\ UNCHANGED supIdx
        ELSE /\ supPc' = "seq"
             /\ supIdx' = j
             /\ supTasks' = Append(tasks, Task(order[j]))
             /\ UNCHANGED supSynthInput

\* coordinate_agents in sequential mode, up to the first await
SupCallSequential ==
    /\ supPc = "idle"
    /\ ~supDecision.parallel_execution
    /\ SeqProceed(1, supResults, supTasks)
    /\ UNCHANGED <<supDecision, supResults, supFinal>>

\* The awaited agent returns or raises; the loop goes on to the next await
SupSeqDone ==
    \E state \in {"returned", "raised"} :
        /\ supPc = "seq"
        /\ LET k == Len(supTasks)
               done == [supTasks EXCEPT ![k].state = state]
               rec == SeqRecord(supResults, supTasks[k].agent, ResultOf(done, k))
           IN  /\ supResults' = rec.results
               /\ IF rec.raised
                  THEN /\ supPc' = "raised"
                       /\ supTasks' = done
                       /\ UNCHANGED <<supIdx, supSynthInput>>
                  ELSE SeqProceed(supIdx + 1, rec.results, done)
        /\ UNCHANGED <<supDecision, supFinal>>

\* The synthesis call returns or raises (lines 148-159, 124-128)
SupSynthesized ==
    \E outcome \in SynthesisOutcomes, content \in SynthesisContents :
        /\ supPc = "synth"
        /\ supPc' = IF outcome = "raise" THEN "failed" ELSE "done"
        /\ supFinal' = CASE outcome = "raise" -> supFinal
                         [] outcome = "garbage" -> DefaultRecommendation
                         [] OTHER -> content
        /\ UNCHANGED <<supDecision, supTasks, supIdx, supResults, supSynthInput>>

-----------------------------------------------------------------------------
(* SupervisorAgent.route_email (agents/supervisor.py) *)

\* What the model may answer as JSON: a decision with or without the keys
\* priority and reasoning
RouteAnswers ==
    [decision : Decisions, priority : {"absent", "urgent"},
     reasoning : {"absent", "model"}]

\* Lines 59-65
DefaultDecision ==
    [decision |-> [has_agents |-> TRUE, agents_to_use |-> <<"analyzer">>,
                   parallel_execution |-> FALSE],
     priority |-> "normal", reasoning |-> "default"]

NoDecision ==
    [decision |-> [has_agents |-> FALSE, agents_to_use |-> <<>>,
                   parallel_execution |-> FALSE],
     priority |-> "absent", reasoning |-> "absent"]

\* What the routing call does: ainvoke raises, or the content parses or not
RouteLlms ==
    [outcome : {"raise", "garbage"}, content : {NoDecision}]
    \cup [outcome : {"json"}, content : RouteAnswers]

\* route_email, lines 53-65: the await of ainvoke is before the try
RouteEmail(llm) ==
    CASE llm.outcome = "raise" -> Raised
      [] llm.outcome = "garbage" -> Ok(DefaultDecision)
      [] OTHER -> Ok(llm.content)

\* route_email up to the await of self.llm.ainvoke
RtCall ==
    /\ rtPc = "idle"
    /\ rtPc' = "llm"
    /\ UNCHANGED <<rtLlm, rtResult>>

\* The LLM call is over: route_email returns or raises
RtAnswered ==
    /\ rtPc = "llm"
    /\ LET r == RouteEmail(rtLlm)
       IN  /\ rtPc' = IF r.raised THEN "raised" ELSE "done"
           /\ rtResult' = IF r.raised THEN rtResult ELSE r.val
    /\ UNCHANGED rtLlm

-----------------------------------------------------------------------------
(* ResponderAgent.generate_reply (agents/responder.py) and                 *)
(* create_reply_draft (routers/emails.py)                                  *)

\* reply_draft: None
NullDraft == [null |-> TRUE]

\* What json.loads(response.content) may be: an object with a body, an
\* object without one, an object whose body is null, an array
ReplyContents == {"body", "no_body", "null_body", "array"}

\* What the LLM gateway does for the responder: ChatOpenAI cannot be built,
\* ainvoke raises, or the content parses or not
ReplyLlms ==
    [outcome : {"no_client", "raise", "garbage"}, content : {"array"}]
    \cup [outcome : {"json"}, content : ReplyContents]

\* ReplyDraft(...).dict(), lines 34-41; body defaults to ""
BuildDraft(email, content) ==
    [null |-> FALSE, to_email |-> <<email.from_email>>,
     subject |-> <<"Re:">> \o email.subject,
     body |-> IF content = "body" THEN <<"thanks">> ELSE <<>>]

\* Lines 50-56
ReplyFailure ==
    [success |-> FALSE, error |-> "message", reply_draft |-> NullDraft]

\* Mutant: generate_reply without its try/except
GenerateReplyUncaught(email, llm) ==
    IF llm.outcome = "json" /\ llm.content \in {"body", "no_body"}
    THEN Ok([success |-> TRUE, error |-> "none",
             reply_draft |-> BuildDraft(email, llm.content)])
    ELSE Raised

\* generate_reply, lines 20-57: ainvoke raising, json.loads raising,
\* reply_data.get on a non-dict and ReplyDraft rejecting a null body all end
\* in the except branch
GenerateReply(email, llm) ==
    IF llm.outcome = "json" /\ llm.content \in {"body", "no_body"}
    THEN Ok([success |-> TRUE, error |-> "none",
             reply_draft |-> BuildDraft(email, llm.content)])
    ELSE Ok(ReplyFailure)

NoReply == Ok([success |-> FALSE, error |-> "none", reply_draft |-> NullDraft])

NoResponse == [status |-> 0]

\* HTTPException(status_code, detail)
HttpError(status) == [status |-> status]

\* gmail_service.create_draft: the draft's id, or None (0) when the
\* provider call fails
CreateDraft(drafts, reply_draft, provider) ==
    IF provider = "ok"
    THEN [drafts |-> Append(drafts, [to_email |-> reply_draft.to_email[1],
                                     subject |-> reply_draft.subject,
                                     body |-> reply_draft.body]),
          draft_id |-> Len(drafts) + 1]
    ELSE [drafts |-> drafts, draft_id |-> 0]

\* Mutant: a draft is created whatever generate_reply returned
ReplyResponseAlwaysDraft(reply, email, drafts, provider) ==
    LET reply_draft == IF ~reply.raised /\ reply.val.success
                       THEN reply.val.reply_draft
                       ELSE BuildDraft(email, "no_body")
        created == CreateDraft(drafts, reply_draft, provider)
    IN  [drafts |-> created.drafts,
         response |-> [status |-> 200, success |-> TRUE,
                       draft_id |-> created.draft_id,
                       reply_draft |-> reply_draft]]

\* create_reply_draft after the await of generate_reply, lines 197-217
ReplyResponse(reply, email, drafts, provider) ==
    IF reply.raised THEN [drafts |-> drafts, response |-> HttpError(500)]
    ELSE IF reply.val.success
    THEN LET created == CreateDraft(drafts, reply.val.reply_draft, provider)
         IN  [drafts |-> created.drafts,
              response |-> [status |-> 200, success |-> TRUE,
                            draft_id |-> created.draft_id,
                            reply_draft |-> reply.val.reply_draft]]
    ELSE [drafts |-> drafts, response |-> HttpError(500)]

\* The inputs of one call of the endpoint
ReplyInputs ==
    [email_id : MailIds \cup {UnknownId}, auth : BOOLEAN,
     gmail : {"ok", "http_error"}, llm : ReplyLlms,
     provider : {"ok", "error"}]

\* create_reply_draft up to the await of generate_reply, lines 185-195
RpCall ==
    /\ rpPc = "idle"
    /\ IF ~rpIn.auth
       THEN rpPc' = "rejected" /\ rpResponse' = HttpError(401)
       ELSE IF GetEmailContent(rpIn.email_id, rpIn.gmail) = NoDate
       THEN rpPc' = "rejected" /\ rpResponse' = HttpError(404)
       ELSE IF rpIn.llm.outcome = "no_client"
       THEN rpPc' = "rejected" /\ rpResponse' = HttpError(500)
       ELSE rpPc' = "generate" /\ UNCHANGED rpResponse
    /\ UNCHANGED <<rpIn, rpReply, rpDrafts>>

\* generate_reply is over; the endpoint runs to its end
RpGenerated ==
    /\ rpPc = "generate"
    /\ LET email == EmailOf(rpIn.email_id)
           reply == GenerateReply(email, rpIn.llm)
           out == ReplyResponse(reply, email, rpDrafts, rpIn.provider)
       IN  /\ rpReply' = reply
           /\ rpDrafts' = out.drafts
           /\ rpResponse' = out.response
    /\ rpPc' = "done"
    /\ UNCHANGED rpIn

-----------------------------------------------------------------------------
(* services/learning_service.py *)

\* Draft texts, as the marker substrings they contain: desumasu and dearu
\* are the formality markers, osoreirimasuga and yoroshiku the stock
\* phrases, paren and youbi the two marks of a date with its day of week
Hello == <<"hello">>

Plain == <<"dearu", "yoroshiku">>

Polite == <<"desumasu", "osoreirimasuga">>

Dated == <<"desumasu", "paren", "youbi">>

Texts == {Hello, Plain, Polite, Dated}

\* The (original, corrected) pairs of the corrections saved
CorrectionPairs ==
    {<<Hello, Polite>>, <<Plain, Polite>>, <<Polite, Plain>>, <<Plain, Dated>>}

\* The drafts similar corrections are asked for
SimilarDrafts == {Hello, Polite}

Recipients == {"a@x", "b@x"}

\* recipient = "": get_similar_corrections then queries without a filter
NoRecipient == ""

\* What a collection call does: it works, or it raises
StoreOutcomes == {"ok", "raise"}

\* limit: int = 5 (line 49)
DefaultSimilarLimit == 5

SimilarLimits == {0, 1, DefaultSimilarLimit}

ListKeys == {"preferred_expressions", "avoid_expressions"}

\* A list element: the string text, or the list [text]
Str(text) == [nested |-> FALSE, text |-> text]

Nested(text) == [nested |-> TRUE, text |-> text]

\* {}
EmptyDict == [k \in {} |-> ""]

\* _analyze_correction: the dict of detected preferences
AnalyzeCorrection(original, corrected) ==
    LET formality ==
            IF Contains(corrected, "desumasu") /\ Contains(original, "dearu")
            THEN "high"
            ELSE IF Contains(corrected, "dearu") /\ Contains(original, "desumasu")
            THEN "low"
            ELSE ""
        keys ==
            {k \in {"formality_level"} : formality # ""}
            \cup {k \in {"preferred_expressions"} :
                      Contains(corrected, "osoreirimasuga")}
            \cup {k \in {"avoid_expressions"} :
                      /\ ~Contains(corrected, "yoroshiku")
                      /\ Contains(original, "yoroshiku")}
            \cup {k \in {"date_format"} :
                      Contains(corrected, "paren") /\ Contains(corrected, "youbi")}
    IN  [k \in keys |->
            CASE k = "formality_level" -> formality
              [] k = "preferred_expressions" -> <<Str("osoreirimasuga")>>
              [] k = "avoid_expressions" -> <<Str("yoroshiku")>>
              [] OTHER -> "include_day_of_week"]

\* The list [text] as an element of another list
AsElement(value) == Nested(value[1].text)

\* Lines 111-119: the detected pairs merged into preferences.  A stored list
\* is compared with, and extended by, the detected value itself, which for
\* the list keys is a list
MergePreferences(preferences, correction_analysis) ==
    [key \in DOMAIN preferences \cup DOMAIN correction_analysis |->
        IF key \notin DOMAIN correction_analysis THEN preferences[key]
        ELSE IF key \notin DOMAIN preferences THEN correction_analysis[key]
        ELSE IF key \in ListKeys
        THEN IF \E i \in DOMAIN preferences[key] :
                    preferences[key][i] = AsElement(correction_analysis[key])
             THEN preferences[key]
             ELSE Append(preferences[key], AsElement(correction_analysis[key]))
        ELSE correction_analysis[key]]

\* return None
NullProfile == [null |-> TRUE]

\* The stored profiles of a recipient, by position
ProfilesOf(store, recipient) ==
    {k \in DOMAIN store : store[k].recipient = recipient}

\* get_recipient_profile: query(n_results=1, where recipient); every profile
\* of the recipient has the same document, so the nearest one is whichever
\* the index returns (pick)
GetRecipientProfile(store, recipient, outcome, pick) ==
    IF outcome = "raise" \/ ProfilesOf(store, recipient) = {} THEN NullProfile
    ELSE [null |-> FALSE, recipient |-> recipient,
          preferences |-> store[pick].preferences]

\* collection.upsert(ids=[id]): replaces the record with this id, or adds it
Upsert(store, record) ==
    IF \E k \in DOMAIN store : store[k].id = record.id
    THEN [k \in DOMAIN store |->
             IF store[k].id = record.id THEN record ELSE store[k]]
    ELSE Append(store, record)

\* Line 121: profile_{recipient}_{timestamp}, the timestamp being that of
\* the call, which no stored profile has
ProfileId(store, recipient) == <<recipient, Len(store) + 1>>

\* _update_recipient_profile: the profile collection afterwards
UpdateRecipientProfile(store, recipient, original, corrected, read, pick, write) ==
    LET existing_profile == GetRecipientProfile(store, recipient, read, pick)
        preferences == IF existing_profile.null THEN EmptyDict
                       ELSE existing_profile.preferences
        merged == MergePreferences(preferences,
                                   AnalyzeCorrection(original, corrected))
    IN  IF write = "raise" THEN store
        ELSE Upsert(store, [id |-> ProfileId(store, recipient),
                            recipient |-> recipient,
                            preferences |-> merged])

\* The record corrections_collection.add stores
CorrectionRecord(original, corrected, recipient) ==
    [original |-> original, corrected |-> corrected, recipient |-> recipient]

\* Mutant: save_correction without its except clause
SaveCorrectionUncaught(corrs, profs, original, corrected, recipient, add, read, pick, write) ==
    IF add = "raise"
    THEN [corrections |-> corrs, profiles |-> profs, ret |-> Raised,
          updates |-> 0]
    ELSE [corrections |->
              Append(corrs, CorrectionRecord(original, corrected, recipient)),
          profiles |-> UpdateRecipientProfile(profs, recipient, original,
                                              corrected, read, pick, write),
          ret |-> Ok(TRUE),
          updates |-> 1]

\* save_correction: both collections afterwards, the value returned and the
\* number of _update_recipient_profile calls made
SaveCorrection(corrs, profs, original, corrected, recipient, add, read, pick, write) ==
    IF add = "raise"
    THEN [corrections |-> corrs, profiles |-> profs, ret |-> Ok(FALSE),
          updates |-> 0]
    ELSE [corrections |->
              Append(corrs, CorrectionRecord(original, corrected, recipient)),
          profiles |-> UpdateRecipientProfile(profs, recipient, original,
                                              corrected, read, pick, write),
          ret |-> Ok(TRUE),
          updates |-> 1]

\* The embedding distance between two texts: the markers one has and the
\* other has not
Distance(a, b) ==
    Cardinality({a[i] : i \in DOMAIN a} \ {b[i] : i \in DOMAIN b})
    + Cardinality({b[i] : i \in DOMAIN b} \ {a[i] : i \in DOMAIN a})

\* The positions ks of the store by increasing distance to draft (ties by
\* insertion)
RECURSIVE NearestFirst(_, _, _)
NearestFirst(store, draft, ks) ==
    IF ks = {} THEN <<>>
    ELSE LET k == CHOOSE x \in ks : \A y \in ks :
                      \/ Distance(draft, store[x].corrected)
                            < Distance(draft, store[y].corrected)
                      \/ /\ Distance(draft, store[x].corrected)
                               = Distance(draft, store[y].corrected)
                         /\ x <= y
         IN  <<k>> \o NearestFirst(store, draft, ks \ {k})

\* corrections_collection.query(query_texts, n_results, where): raises on a
\* store failure and on n_results <= 0
QueryCorrections(store, draft, n_results, recipient, outcome) ==
    IF outcome = "raise" \/ n_results <= 0 THEN Raised
    ELSE Ok(Take(NearestFirst(store, draft,
                     {k \in DOMAIN store :
                         recipient = NoRecipient \/ store[k].recipient = recipient}),
                 n_results))

\* Lines 58-68: one dict per document returned
SimilarCorrections(store, draft, found) ==
    [i \in DOMAIN found |->
        [corrected |-> store[found[i]].corrected,
         original |-> store[found[i]].original,
         distance |-> Distance(draft, store[found[i]].corrected)]]

\* Mutant: get_similar_corrections without its except clause
GetSimilarCorrectionsUncaught(store, draft, recipient, limit, outcome) ==
    LET results == QueryCorrections(store, draft, limit, recipient, outcome)
    IN  IF results.raised THEN Raised
        ELSE Ok(SimilarCorrections(store, draft, results.val))

\* get_similar_corrections
GetSimilarCorrections(store, draft, recipient, limit, outcome) ==
    LET results == QueryCorrections(store, draft, limit, recipient, outcome)
    IN  IF results.raised THEN Ok(<<>>)
        ELSE Ok(SimilarCorrections(store, draft, results.val))

NoLsCall == [op |-> "none"]

\* The two read calls leave both collections as they are: a call made after
\* a read finds what the same call made before it finds, so the calls that
\* follow a read are those that can be made in its place
ReadsDone == lsRet.op \in {"none", "save"}

\* One call save_correction(original, corrected, context) with
\* context.recipient = recipient
LsSave ==
    \E pair \in CorrectionPairs, recipient \in Recipients,
       add \in StoreOutcomes, read \in StoreOutcomes, write \in StoreOutcomes,
       pick \in 0..Len(profiles) :
        /\ ReadsDone
        /\ Len(corrections) < MaxCorrections
        \* the profile collection is not reached when add raises
        /\ add = "raise" => read = "ok" /\ write = "ok"
        /\ IF add = "ok" /\ read = "ok" /\ ProfilesOf(profiles, recipient) # {}
           THEN pick \in ProfilesOf(profiles, recipient)
           ELSE pick = 0
        /\ LET r == SaveCorrection(corrections, profiles, pair[1], pair[2],
                                   recipient, add, read, pick, write)
           IN  /\ corrections' = r.corrections
               /\ profiles' = r.profiles
               /\ lsRet' = [op |-> "save", original |-> pair[1],
                            corrected |-> pair[2], recipient |-> recipient,
                            add |-> add, read |-> read, write |-> write,
                            ret |-> r.ret, updates |-> r.updates,
                            corrections_before |-> corrections,
                            profiles_before |-> profiles]

\* One call get_recipient_profile(recipient)
LsProfile ==
    \E recipient \in Recipients, outcome \in StoreOutcomes,
       pick \in 0..Len(profiles) :
        /\ ReadsDone
        /\ IF outcome = "ok" /\ ProfilesOf(profiles, recipient) # {}
           THEN pick \in ProfilesOf(profiles, recipient)
           ELSE pick = 0
        /\ lsRet' = [op |-> "profile", recipient |-> recipient,
                     outcome |-> outcome,
                     ret |-> GetRecipientProfile(profiles, recipient, outcome,
                                                 pick)]
        /\ UNCHANGED <<corrections, profiles>>

\* One call get_similar_corrections(draft, recipient, limit)
LsSimilar ==
    \E draft \in SimilarDrafts, recipient \in Recipients \cup {NoRecipient},
       limit \in SimilarLimits, outcome \in StoreOutcomes :
        /\ ReadsDone
        /\ lsRet' = [op |-> "similar", draft |-> draft,
                     recipient |-> recipient, limit |-> limit,
                     outcome |-> outcome,
                     ret |-> GetSimilarCorrections(corrections, draft,
                                                   recipient, limit, outcome)]
        /\ UNCHANGED <<corrections, profiles>>

-----------------------------------------------------------------------------
(* agents/supervisor.py: one coordinate_agents call after the other *)

\* Mutant: results kept in an attribute of the agent and carried into the
\* next call
InitialResultsKept(previous) == previous

\* Line 70: results = {} is a local of the call, whatever the call before
\* left in its own
InitialResults(previous) == NoResults

\* The routing decisions that list at most MaxListed names
ShortDecisions == {d \in Decisions : Len(d.agents_to_use) <= MaxListed}

\* The call is over, by return or by exception, and coordinate_agents is
\* called again with another routing decision: lines 70-81
SupCallAgain ==
    \E decision \in ShortDecisions :
        /\ supPc \in {"done", "raised", "failed"}
        /\ supCalls < MaxCalls
        /\ supCalls' = supCalls + 1
        /\ supDecision' = decision
        /\ supPc' = "idle"
        /\ supTasks' = <<>>
        /\ supIdx' = 0
        /\ supResults' = InitialResults(supResults)
        /\ supSynthInput' = NoResults
        /\ supFinal' = NoRecommendation

-----------------------------------------------------------------------------
(* services/filtering_service.py: analyze_email_patterns *)

\* The automated_indicators of line 75 that the emails below can contain
AutomatedIndicators == {"noreply", "github", "deployment"}

\* _detect_automated_characteristics
DetectAutomatedCharacteristics(email) ==
    ContainsAny(Lower(email.from_email \o email.subject \o email.body),
                AutomatedIndicators)

NoreplyMail ==
    [from_email |-> <<"NOREPLY">>, subject |-> <<"hello">>, body |-> <<"hello">>]

HumanMail ==
    [from_email |-> <<"alice">>, subject |-> <<"hello">>, body |-> <<"hello">>]

\* The emails argument
PatternEmails == SeqsUpTo({NoreplyMail, HumanMail}, 2)

\* A proposed suggestion with the four keys, and one without the key
\* confidence
CompleteSuggestion == [rule_description |-> "exclude noreply", complete |-> TRUE]

IncompleteSuggestion == [rule_description |-> "exclude github", complete |-> FALSE]

\* What the analysis call does: ainvoke raises, the content does not parse,
\* or it parses to an object with or without the key suggestions
PatternLlms ==
    [outcome : {"raise", "garbage"}, has_suggestions : {FALSE},
     suggestions : {<<>>}]
    \cup [outcome : {"json"}, has_suggestions : {FALSE}, suggestions : {<<>>}]
    \cup [outcome : {"json"}, has_suggestions : {TRUE},
          suggestions : SeqsUpTo({CompleteSuggestion, IncompleteSuggestion}, 2)]

\* The record suggestions_collection.add stores
PendingSuggestion(suggestion) ==
    [rule_description |-> suggestion.rule_description, status |-> "pending"]

\* _save_suggestions from position i: one add per suggestion, in order; a
\* missing key raises KeyError at that suggestion
RECURSIVE SaveSuggestions(_, _, _)
SaveSuggestions(store, proposed, i) ==
    IF i > Len(proposed) THEN [store |-> store, raised |-> FALSE]
    ELSE IF ~proposed[i].complete THEN [store |-> store, raised |-> TRUE]
    ELSE SaveSuggestions(Append(store, PendingSuggestion(proposed[i])),
                         proposed, i + 1)

\* Line 43
NoPatternsResult == [suggestions |-> <<>>, analysis |-> "no patterns"]

\* Line 72
FailureResult == [suggestions |-> <<>>, analysis |-> "failed"]

\* analyze_email_patterns: the collection afterwards, the value returned or
\* the exception, and the number of LLM calls.  The ainvoke of line 65 is
\* outside the try block
AnalyzeEmailPatterns(store, emails, llm) ==
    IF \A k \in DOMAIN emails : ~DetectAutomatedCharacteristics(emails[k])
    THEN [store |-> store, ret |-> Ok(NoPatternsResult), llm_calls |-> 0]
    ELSE IF llm.outcome = "raise"
    THEN [store |-> store, ret |-> Raised, llm_calls |-> 1]
    ELSE IF llm.outcome = "garbage" \/ ~llm.has_suggestions
    THEN [store |-> store, ret |-> Ok(FailureResult), llm_calls |-> 1]
    ELSE LET saved == SaveSuggestions(store, llm.suggestions, 1)
         IN  [store |-> saved.store,
              ret |-> IF saved.raised THEN Ok(FailureResult)
                      ELSE Ok([suggestions |-> llm.suggestions,
                               analysis |-> "llm"]),
              llm_calls |-> 1]

NoPaCall == [called |-> FALSE]

\* One call analyze_email_patterns(emails)
PaAnalyze ==
    \E emails \in PatternEmails, llm \in PatternLlms :
        /\ Len(suggestions) < MaxSuggestions
        /\ LET r == AnalyzeEmailPatterns(suggestions, emails, llm)
           IN  /\ suggestions' = r.store
               /\ paRet' = [called |-> TRUE, emails |-> emails, llm |-> llm,
                            ret |-> r.ret, llm_calls |-> r.llm_calls,
                            before |-> suggestions]

-----------------------------------------------------------------------------
(* agents/responder.py: suggest_meeting_times *)

\* Days are numbered from a Monday: date.weekday() is 0 for Monday and 6 for
\* Sunday
Weekday(day) == day % 7

\* datetime.now() of the call
Days == 0..MaxDay

\* range(3) of line 142
FallbackRange == 3

\* weekday() < 5 of line 144
FirstWeekendDay == 5

\* The fixed slot of line 145 on a day
Slot(day) == [day |-> day, time |-> "14:00-15:00"]

ProposedSlots == {[day |-> 1, time |-> "10:00-11:00"],
                  [day |-> 2, time |-> "15:00-16:00"]}

\* What the scheduling call does: ainvoke raises, the content does not
\* parse, or it parses to a list or to something else
MeetingLlms ==
    [outcome : {"raise", "garbage", "object"}, slots : {<<>>}]
    \cup [outcome : {"list"}, slots : SeqsUpTo(ProposedSlots, 2)]

\* The fixed slot on each of the next three weekdays after base_date,
\* Saturdays and Sundays skipped
RECURSIVE NextThreeWeekdays(_, _, _)
NextThreeWeekdays(base_date, i, found) ==
    IF Len(found) = FallbackRange THEN found
    ELSE LET future_date == base_date + i + 1
         IN  NextThreeWeekdays(base_date, i + 1,
                 IF Weekday(future_date) < FirstWeekendDay
                 THEN Append(found, Slot(future_date)) ELSE found)

\* Lines 141-146 from iteration i on: one candidate per i in range(3), kept
\* when it is a weekday
RECURSIVE FallbackSlots(_, _, _)
FallbackSlots(base_date, i, found) ==
    IF i >= FallbackRange THEN found
    ELSE LET future_date == base_date + i + 1
         IN  FallbackSlots(base_date, i + 1,
                 IF Weekday(future_date) < FirstWeekendDay
                 THEN Append(found, Slot(future_date)) ELSE found)

\* suggest_meeting_times called on day today
SuggestMeetingTimes(today, llm) ==
    IF llm.outcome = "list" THEN llm.slots
    ELSE IF llm.outcome = "object" THEN <<>>
    ELSE Take(FallbackSlots(today, 0, <<>>), FallbackRange)

NoMtCall == [called |-> FALSE]

\* One call suggest_meeting_times(email_content)
MtSuggest ==
    \E today \in Days, llm \in MeetingLlms :
        mtRet' = [called |-> TRUE, today |-> today, llm |-> llm,
                  ret |-> SuggestMeetingTimes(today, llm)]

-----------------------------------------------------------------------------
(* agents/manager.py: manage_attachments *)

\* attachment.get("filename", ...) finds no key in Unnamed
Unnamed == [has_filename |-> FALSE, filename |-> ""]

Attachments ==
    {Unnamed} \cup [has_filename : {TRUE}, filename : {"a.pdf", "b.png"}]

AttachmentLists == SeqsUpTo(Attachments, MaxAttachments)

\* dict.get("filename", default)
GetFilename(attachment, default) ==
    IF attachment.has_filename THEN attachment.filename ELSE default

\* Lines 146-151 and 121-126: the default classification of a file
DefaultClassification(filename) ==
    [filename |-> filename, category |-> "other", importance |-> "medium",
     suggested_folder |-> "attachments"]

\* A classification the LLM proposes
ContractClassification(filename) ==
    [filename |-> filename, category |-> "contract", importance |-> "high",
     suggested_folder |-> "contracts"]

\* Lines 114-130: the default plan
DefaultPlan(attachments) ==
    [project_name |-> "general",
     has_folder_structure |-> TRUE,
     main_folder |-> "mail_date",
     file_classifications |->
         [k \in DOMAIN attachments |->
             DefaultClassification(GetFilename(attachments[k], "unknown"))]]

\* Plans the LLM returns as parsable JSON, with or without the key
\* folder_structure
LlmPlans ==
    [project_name : {"project"},
     has_folder_structure : BOOLEAN,
     main_folder : {"project_folder"},
     file_classifications :
         SeqsUpTo({ContractClassification("a.pdf"),
                   ContractClassification("unknown_file")}, 2)]

\* What the plan call does
PlanLlms ==
    [outcome : {"raise", "garbage"}, plan : {DefaultPlan(<<>>)}]
    \cup [outcome : {"json"}, plan : LlmPlans]

\* _analyze_attachments
AnalyzeAttachments(attachments, llm) ==
    IF llm.outcome = "json" THEN llm.plan ELSE DefaultPlan(attachments)

\* Lines 139-143: the first classification of the same filename in a
\* sequence of one, or the empty sequence for None
FindClassification(plan, filename) ==
    Take(SelectSeq(plan.file_classifications,
                   LAMBDA c : c.filename = filename), 1)

\* Mutant: _process_attachment without the default classification of
\* lines 145-151
ProcessAttachmentNoDefault(attachment, organization_plan) ==
    LET filename == GetFilename(attachment, "unknown_file")
        found == FindClassification(organization_plan, filename)
    IN  IF found = <<>> \/ ~organization_plan.has_folder_structure
        THEN Raised
        ELSE Ok([original_filename |-> filename,
                 category |-> found[1].category,
                 importance |-> found[1].importance,
                 saved_location |->
                     <<organization_plan.main_folder,
                       found[1].suggested_folder, filename>>])

\* _process_attachment: the file information, or the KeyError of line 160
ProcessAttachment(attachment, organization_plan) ==
    LET filename == GetFilename(attachment, "unknown_file")
        found == FindClassification(organization_plan, filename)
        file_classification ==
            IF found = <<>> THEN DefaultClassification(filename)
            ELSE found[1]
    IN  IF ~organization_plan.has_folder_structure THEN Raised
        ELSE Ok([original_filename |-> filename,
                 category |-> file_classification.category,
                 importance |-> file_classification.importance,
                 saved_location |->
                     <<organization_plan.main_folder,
                       file_classification.suggested_folder, filename>>])

\* manage_attachments: the dictionary returned and the number of LLM calls
ManageAttachments(attachments, llm) ==
    IF attachments = <<>>
    THEN [ret |-> [success |-> TRUE, files_processed |-> 0,
                   processed_files |-> <<>>],
          llm_calls |-> 0]
    ELSE LET organization_plan == AnalyzeAttachments(attachments, llm)
             file_infos ==
                 [k \in DOMAIN attachments |->
                     ProcessAttachment(attachments[k], organization_plan)]
         IN  [ret |-> IF \E k \in DOMAIN file_infos : file_infos[k].raised
                      THEN [success |-> FALSE, files_processed |-> 0,
                            processed_files |-> <<>>]
                      ELSE [success |-> TRUE,
                            files_processed |-> Len(file_infos),
                            processed_files |->
                                [k \in DOMAIN file_infos |->
                                    file_infos[k].val]],
              llm_calls |-> 1]

NoMgCall == [called |-> FALSE]

\* One call manage_attachments(email)
MgManage ==
    \E attachments \in AttachmentLists, llm \in PlanLlms :
        LET r == ManageAttachments(attachments, llm)
        IN  mgRet' = [called |-> TRUE, attachments |-> attachments,
                      llm |-> llm, ret |-> r.ret, llm_calls |-> r.llm_calls]

-----------------------------------------------------------------------------
(* adk/routes.py and python_tutorial/src/adk_tutorial.py *)

DeviceIds == {"adk-001", "adk-002", "adk-003"}

\* Device ids of a request: the three devices and one that does not exist
RequestIds == DeviceIds \cup {"adk-999"}

\* routes.py lines 39-58
InitialDeviceStates ==
    [d \in DeviceIds |->
        CASE d = "adk-001" ->
                 [connected |-> FALSE, color |-> "#FFFFFF", brightness |-> 50,
                  pattern |-> "solid"]
          [] d = "adk-002" ->
                 [connected |-> FALSE, temperature |-> 22, humidity |-> 45,
                  logging |-> FALSE]
          [] d = "adk-003" ->
                 [connected |-> FALSE, vibration |-> 0]]

\* command.parameters: the key the handler reads, absent or with a value
NoParameter == <<>>

Parameter(value) == <<value>>

\* parameters.get(key, default)
GetParameter(parameter, default) ==
    IF parameter = NoParameter THEN default ELSE parameter[1]

\* command.command_type: the six the handler knows and one it does not
CommandTypes ==
    {"set_color", "set_brightness", "set_pattern", "start_logging",
     "stop_logging", "set_vibration", "reset"}

\* The parameter the handler reads for a command type, present or not
ParametersOf(command_type) ==
    CASE command_type = "set_color" -> {NoParameter, Parameter("#FF0000")}
      [] command_type = "set_brightness" -> {NoParameter, Parameter(80)}
      [] command_type = "set_pattern" -> {NoParameter, Parameter("blink")}
      [] command_type = "set_vibration" -> {NoParameter, Parameter(5)}
      [] OTHER -> {NoParameter}

\* HTTPException(status_code=...) or the AccessoryResponse
NotFound == [status |-> 404]

NotConnected == [status |-> 400]

Success == [status |-> 200]

\* Lines 117-133: the state of a connected device after a command
ApplyCommand(device_id, state, command) ==
    LET type == command.command_type
        parameter == command.parameter
    IN  CASE device_id = "adk-001" /\ type = "set_color" ->
                 [state EXCEPT !.color = GetParameter(parameter, "#FFFFFF")]
          [] device_id = "adk-001" /\ type = "set_brightness" ->
                 [state EXCEPT !.brightness = GetParameter(parameter, 50)]
          [] device_id = "adk-001" /\ type = "set_pattern" ->
                 [state EXCEPT !.pattern = GetParameter(parameter, "solid")]
          [] device_id = "adk-002" /\ type = "start_logging" ->
                 [state EXCEPT !.logging = TRUE]
          [] device_id = "adk-002" /\ type = "stop_logging" ->
                 [state EXCEPT !.logging = FALSE]
          [] device_id = "adk-003" /\ type = "set_vibration" ->
                 [state EXCEPT !.vibration = GetParameter(parameter, 0)]
          [] OTHER -> state

\* connect_device and disconnect_device: the states afterwards and the
\* response
SetConnected(states, device_id, flag) ==
    IF device_id \notin DOMAIN states
    THEN [states |-> states, response |-> NotFound]
    ELSE [states |-> [states EXCEPT ![device_id].connected = flag],
          response |-> Success]

\* Mutant: send_command without the check of lines 114-115
SendCommandUnchecked(states, device_id, command) ==
    IF device_id \notin DOMAIN states
    THEN [states |-> states, response |-> NotFound]
    ELSE [states |-> [states EXCEPT ![device_id] =
                         ApplyCommand(device_id, @, command)],
          response |-> Success]

\* send_command of routes.py
SendCommand(states, device_id, command) ==
    IF device_id \notin DOMAIN states
    THEN [states |-> states, response |-> NotFound]
    ELSE IF ~states[device_id].connected
    THEN [states |-> states, response |-> NotConnected]
    ELSE [states |-> [states EXCEPT ![device_id] =
                         ApplyCommand(device_id, @, command)],
          response |-> Success]

NoDevCall == [op |-> "none"]

\* The record of a request to the routes
DevCall(op, device_id, command, response) ==
    [op |-> op, device_id |-> device_id, command |-> command,
     response |-> response, before |-> device_states]

NoCommand == [command_type |-> "none", parameter |-> NoParameter]

\* POST /adk/devices/{device_id}/connect
DevConnect ==
    \E device_id \in RequestIds :
        LET r == SetConnected(device_states, device_id, TRUE)
        IN  /\ device_states' = r.states
            /\ devRet' = DevCall("connect", device_id, NoCommand, r.response)
            /\ UNCHANGED connected

\* POST /adk/devices/{device_id}/disconnect
DevDisconnect ==
    \E device_id \in RequestIds :
        LET r == SetConnected(device_states, device_id, FALSE)
        IN  /\ device_states' = r.states
            /\ devRet' = DevCall("disconnect", device_id, NoCommand,
                                 r.response)
            /\ UNCHANGED connected

\* POST /adk/devices/{device_id}/command
DevCommand ==
    \E device_id \in RequestIds, command_type \in CommandTypes :
      \E parameter \in ParametersOf(command_type) :
        LET command == [command_type |-> command_type,
                        parameter |-> parameter]
            r == SendCommand(device_states, device_id, command)
        IN  /\ device_states' = r.states
            /\ devRet' = DevCall("command", device_id, command, r.response)
            /\ UNCHANGED connected

\* The record of a call on the tutorial's AccessoryDevice object
AccCall(op, ret) ==
    [op |-> op, device_id |-> "tutorial", command |-> NoCommand,
     response |-> ret, before |-> connected]

\* AccessoryDevice.connect: False when already connected
AccConnect ==
    /\ connected' = TRUE
    /\ devRet' = AccCall("acc_connect", ~connected)
    /\ UNCHANGED device_states

\* AccessoryDevice.disconnect: False when already disconnected
AccDisconnect ==
    /\ connected' = FALSE
    /\ devRet' = AccCall("acc_disconnect", connected)
    /\ UNCHANGED device_states

\* AccessoryDevice.send_command: an error dictionary when not connected,
\* and no attribute is assigned either way
AccSendCommand ==
    /\ devRet' = AccCall("acc_command",
                         IF connected THEN "success" ELSE "error")
    /\ UNCHANGED <<device_states, connected>>

-----------------------------------------------------------------------------
(* Specifications *)

NoResult == [success |-> FALSE]

AzEmails ==
    [id : {1}, date : {0}, from_email : {<<"alice">>}, subject : Subjects,
     body : {<<"hello">>}]

AzQuiet ==
    /\ azEmail = [id |-> 1, date |-> 0, from_email |-> <<"alice">>,
                  subject |-> <<>>, body |-> <<"hello">>]
    /\ azGateway = [ai_enabled |-> FALSE]
    /\ azPc = "idle"
    /\ azResult = NoResult

CacheQuiet ==
    /\ now = StartTime
    /\ mailbox = [i \in MailIds |-> NoDate]
    /\ rules = <<>>
    /\ cache = EmptyBag
    /\ pass = [p \in PassIds |-> IdlePass]
    /\ dbRet = NoReturn

SupQuiet ==
    /\ supDecision = [has_agents |-> FALSE, agents_to_use |-> <<>>,
                      parallel_execution |-> FALSE]
    /\ supPc = "idle"
    /\ supTasks = <<>>
    /\ supIdx = 0
    /\ supResults = NoResults
    /\ supSynthInput = NoResults
    /\ supFinal = NoRecommendation

RtQuiet ==
    /\ rtLlm = [outcome |-> "garbage", content |-> NoDecision]
    /\ rtPc = "idle"
    /\ rtResult = NoDecision

RpQuiet ==
    /\ rpIn = [email_id |-> UnknownId, auth |-> FALSE, gmail |-> "ok",
               llm |-> [outcome |-> "garbage", content |-> "array"],
               provider |-> "ok"]
    /\ rpPc = "idle"
    /\ rpReply = NoReply
    /\ rpDrafts = <<>>
    /\ rpResponse = NoResponse

NoCall == [called |-> FALSE, ret |-> FALSE]

NoCheck == [called |-> FALSE, store |-> <<>>, ret |-> FALSE]

FltQuiet ==
    /\ fltRet = NoCall
    /\ fltEmail = [id |-> 1, date |-> NoDate, from_email |-> <<"alice">>,
                   subject |-> <<>>, body |-> <<"hello">>]
    /\ fltResult = NoCheck

ByIdQuiet == byId = NoById

LsQuiet ==
    /\ corrections = <<>>
    /\ profiles = <<>>
    /\ lsRet = NoLsCall

PaQuiet == suggestions = <<>> /\ paRet = NoPaCall

MtQuiet == mtRet = NoMtCall

MgQuiet == mgRet = NoMgCall

DevQuiet ==
    /\ device_states = InitialDeviceStates
    /\ connected = FALSE
    /\ devRet = NoDevCall

ExtraQuiet == PaQuiet /\ MtQuiet /\ MgQuiet /\ DevQuiet /\ supCalls = 0

\* No analysis submitted yet
SubmittedQuiet == submitted = [i \in MailIds |-> 0]

MoreQuiet == SubmittedQuiet /\ LsQuiet /\ ExtraQuiet

RestQuiet == RtQuiet /\ RpQuiet /\ FltQuiet /\ ByIdQuiet /\ MoreQuiet

AzInit ==
    /\ azEmail \in AzEmails
    /\ azGateway \in AnalysisGateways
    /\ azPc = "idle"
    /\ azResult = NoResult
    /\ CacheQuiet
    /\ SupQuiet
    /\ RestQuiet

\* One call analyzer.analyze_email(azEmail)
AzAnalyze ==
    /\ azPc = "idle"
    /\ LET r == AnalyzeEmail(azEmail, azGateway)
       IN  /\ azPc' = IF r.raised THEN "raised" ELSE "returned"
           /\ azResult' = IF r.raised THEN NoResult ELSE r.val
    /\ UNCHANGED <<azEmail, azGateway, cacheVars, supVars, restVars>>

AzNext == AzAnalyze

SpecAnalyzer == AzInit /\ [][AzNext]_vars

CacheInit ==
    /\ AzQuiet
    /\ SupQuiet
    /\ RestQuiet
    /\ now = StartTime
    /\ mailbox \in [MailIds -> MailDates \cup {NoDate}]
    /\ rules \in RuleStores
    /\ cache \in {EmptyBag, SeedCache}
    /\ pass = [p \in PassIds |-> IdlePass]
    /\ dbRet = NoReturn

\* One caller at a time: every call is made by caller 1
CacheNext ==
    \/ GetRecentFast(1) /\ UNCHANGED <<azVars, supVars, restVars>>
    \/ GetRecentSync(1) /\ UNCHANGED <<azVars, supVars, restVars>>
    \/ AnalyzeNext(1) /\ UNCHANGED <<azVars, supVars, restVars>>
    \/ FinishPass(1) /\ UNCHANGED <<azVars, supVars, restVars>>
    \/ ReturnPass(1) /\ UNCHANGED <<azVars, supVars, restVars>>
    \/ GetEmailById /\ UNCHANGED <<azVars, supVars, restVars>>

SpecCache == CacheInit /\ [][CacheNext]_vars

DbInit ==
    /\ AzQuiet
    /\ CacheQuiet
    /\ SupQuiet
    /\ RestQuiet

DbNext == DbCacheEmail /\ UNCHANGED <<azVars, supVars, restVars>>

SpecDb == DbInit /\ [][DbNext]_vars

SupInit ==
    /\ AzQuiet
    /\ CacheQuiet
    /\ RestQuiet
    /\ supDecision \in Decisions
    /\ supPc = "idle"
    /\ supTasks = <<>>
    /\ supIdx = 0
    /\ supResults = NoResults
    /\ supSynthInput = NoResults
    /\ supFinal = NoRecommendation

SupNext ==
    \/ SupCallParallel /\ UNCHANGED <<azVars, cacheVars, restVars>>
    \/ SupTaskDone /\ UNCHANGED <<azVars, cacheVars, restVars>>
    \/ SupGathered /\ UNCHANGED <<azVars, cacheVars, restVars>>
    \/ SupCallSequential /\ UNCHANGED <<azVars, cacheVars, restVars>>
    \/ SupSeqDone /\ UNCHANGED <<azVars, cacheVars, restVars>>
    \/ SupSynthesized /\ UNCHANGED <<azVars, cacheVars, restVars>>

SpecSupervisor == SupInit /\ [][SupNext]_vars

RtInit ==
    /\ AzQuiet
    /\ CacheQuiet
    /\ SupQuiet
    /\ RpQuiet
    /\ FltQuiet
    /\ ByIdQuiet
    /\ MoreQuiet
    /\ rtLlm \in RouteLlms
    /\ rtPc = "idle"
    /\ rtResult = NoDecision

RtNext ==
    \/ RtCall /\ UNCHANGED <<azVars, cacheVars, supVars, rpVars, fltVars, byId, moreVars>>
    \/ RtAnswered /\ UNCHANGED <<azVars, cacheVars, supVars, rpVars, fltVars, byId, moreVars>>

SpecRouter == RtInit /\ [][RtNext]_vars

RpInit ==
    /\ AzQuiet
    /\ SupQuiet
    /\ RtQuiet
    /\ FltQuiet
    /\ ByIdQuiet
    /\ MoreQuiet
    /\ now = StartTime
    /\ mailbox \in [MailIds -> {NewA, NoDate}]
    /\ rules = <<>>
    /\ cache = EmptyBag
    /\ pass = [p \in PassIds |-> IdlePass]
    /\ dbRet = NoReturn
    /\ rpIn \in ReplyInputs
    /\ rpPc = "idle"
    /\ rpReply = NoReply
    /\ rpDrafts = <<>>
    /\ rpResponse = NoResponse

RpNext ==
    \/ RpCall /\ UNCHANGED <<azVars, cacheVars, supVars, rtVars, fltVars, byId, moreVars>>
    \/ RpGenerated /\ UNCHANGED <<azVars, cacheVars, supVars, rtVars, fltVars, byId, moreVars>>

SpecReply == RpInit /\ [][RpNext]_vars

\* The rule store starts empty and is filled by apply_filtering_rule
FltInit ==
    /\ AzQuiet
    /\ CacheQuiet
    /\ SupQuiet
    /\ RtQuiet
    /\ RpQuiet
    /\ FltQuiet
    /\ ByIdQuiet
    /\ MoreQuiet

FltNext ==
    \/ FltApply /\ UNCHANGED <<azVars, supVars, rtVars, rpVars, byId, moreVars>>
    \/ FltCheck /\ UNCHANGED <<azVars, supVars, rtVars, rpVars, byId, moreVars>>

SpecFilter == FltInit /\ [][FltNext]_vars

ByIdInit ==
    /\ AzQuiet
    /\ SupQuiet
    /\ RtQuiet
    /\ RpQuiet
    /\ FltQuiet
    /\ ByIdQuiet
    /\ MoreQuiet
    /\ now = StartTime
    /\ mailbox \in [MailIds -> MailDates \cup {NoDate}]
    /\ rules = <<>>
    /\ cache \in {EmptyBag, SeedCache}
    /\ pass = [p \in PassIds |-> IdlePass]
    /\ dbRet = NoReturn

ByIdNext == ByIdCall /\ UNCHANGED <<azVars, supVars, rtVars, rpVars, fltVars, moreVars>>

SpecById == ByIdInit /\ [][ByIdNext]_vars

\* Two get_recent_emails_cached(limit=20, force_refresh=True) calls in flight
\* on the same event loop, one call per caller, over an inbox of recent
\* messages; a step runs from one await to the next
RaceInit ==
    /\ AzQuiet
    /\ SupQuiet
    /\ RestQuiet
    /\ now = StartTime
    /\ mailbox \in [MailIds -> {NewA, NewB}]
    /\ rules = <<>>
    /\ cache \in {EmptyBag, SeedCache}
    /\ pass = [p \in PassIds |-> IdlePass]
    /\ dbRet = NoReturn

RaceNext ==
    \E p \in PassIds :
        \/ /\ GetRecentSync(p)
           /\ pass'[p].limit = DefaultLimit
           /\ pass'[p].force_refresh
           /\ UNCHANGED <<azVars, supVars, restVars>>
        \/ AnalyzeNext(p) /\ UNCHANGED <<azVars, supVars, restVars>>
        \/ FinishPass(p) /\ UNCHANGED <<azVars, supVars, restVars>>

SpecRace == RaceInit /\ [][RaceNext]_vars

\* A sequence of get_recent_emails_cached and get_email_by_id_cached calls
\* with one sync pass in flight at a time, the analyze_email calls recorded
ResyncInit ==
    /\ AzQuiet
    /\ SupQuiet
    /\ RestQuiet
    /\ now = StartTime
    /\ mailbox \in [MailIds -> MailDates \cup {NoDate}]
    /\ rules = <<>>
    /\ cache \in {EmptyBag, SeedCache}
    /\ pass = [p \in PassIds |-> IdlePass]
    /\ dbRet = NoReturn

\* Line 39: analyze_email(email) is called for the email of this iteration
Submit(p) ==
    submitted' = [submitted EXCEPT ![pass[p].new_emails[pass[p].idx].id] =
                     Min(@ + 1, 2)]

ResyncNext ==
    \/ GetRecentFast(1) /\ UNCHANGED <<azVars, supVars, restVars>>
    \/ GetRecentSync(1) /\ UNCHANGED <<azVars, supVars, restVars>>
    \/ /\ AnalyzeNext(1)
       /\ Submit(1)
       /\ UNCHANGED <<azVars, supVars, rtVars, rpVars, fltVars, byId, lsVars, extraVars>>
    \/ FinishPass(1) /\ UNCHANGED <<azVars, supVars, restVars>>
    \/ ReturnPass(1) /\ UNCHANGED <<azVars, supVars, restVars>>
    \/ GetEmailById /\ UNCHANGED <<azVars, supVars, restVars>>

SpecResync == ResyncInit /\ [][ResyncNext]_vars

\* LearningService over empty collections (a new vector_db directory)
LsInit ==
    /\ AzQuiet
    /\ CacheQuiet
    /\ SupQuiet
    /\ RestQuiet

LsNext ==
    \/ LsSave /\ UNCHANGED <<azVars, cacheVars, supVars, rtVars, rpVars, fltVars, byId, submitted, extraVars>>
    \/ LsProfile /\ UNCHANGED <<azVars, cacheVars, supVars, rtVars, rpVars, fltVars, byId, submitted, extraVars>>
    \/ LsSimilar /\ UNCHANGED <<azVars, cacheVars, supVars, rtVars, rpVars, fltVars, byId, submitted, extraVars>>

SpecLearning == LsInit /\ [][LsNext]_vars

\* Everything outside the additional services at rest
CoreQuiet ==
    /\ AzQuiet
    /\ CacheQuiet
    /\ SupQuiet
    /\ RtQuiet
    /\ RpQuiet
    /\ FltQuiet
    /\ ByIdQuiet
    /\ SubmittedQuiet
    /\ LsQuiet

coreVars ==
    <<azVars, cacheVars, supVars, rtVars, rpVars, fltVars, byId, submitted,
      lsVars, supCalls>>

\* FilteringService over an empty suggestion collection
PaInit == CoreQuiet /\ ExtraQuiet

PaNext ==
    PaAnalyze /\ UNCHANGED <<coreVars, mtRet, mgRet, device_states, connected, devRet>>

SpecPatterns == PaInit /\ [][PaNext]_vars

MtInit == CoreQuiet /\ ExtraQuiet

MtNext ==
    MtSuggest /\ UNCHANGED <<coreVars, suggestions, paRet, mgRet, device_states, connected, devRet>>

SpecMeeting == MtInit /\ [][MtNext]_vars

MgInit == CoreQuiet /\ ExtraQuiet

MgNext ==
    MgManage /\ UNCHANGED <<coreVars, suggestions, paRet, mtRet, device_states, connected, devRet>>

SpecManager == MgInit /\ [][MgNext]_vars

\* The routes module just imported and a tutorial device just constructed
DevInit == CoreQuiet /\ ExtraQuiet

DevNext ==
    \/ DevConnect /\ UNCHANGED <<coreVars, suggestions, paRet, mtRet, mgRet>>
    \/ DevDisconnect /\ UNCHANGED <<coreVars, suggestions, paRet, mtRet, mgRet>>
    \/ DevCommand /\ UNCHANGED <<coreVars, suggestions, paRet, mtRet, mgRet>>
    \/ AccConnect /\ UNCHANGED <<coreVars, suggestions, paRet, mtRet, mgRet>>
    \/ AccDisconnect /\ UNCHANGED <<coreVars, suggestions, paRet, mtRet, mgRet>>
    \/ AccSendCommand /\ UNCHANGED <<coreVars, suggestions, paRet, mtRet, mgRet>>

SpecDevices == DevInit /\ [][DevNext]_vars

\* Another request stores a suggestion while the supervisor works
StoreSuggestion ==
    /\ PaAnalyze
    /\ paRet'.emails = <<NoreplyMail>>
    /\ paRet'.llm = [outcome |-> "json", has_suggestions |-> TRUE,
                     suggestions |-> <<CompleteSuggestion>>]

stVars == <<azVars, cacheVars, rtVars, rpVars, fltVars, byId, submitted, lsVars>>

\* The calls of one supervisor, one after the other, next to a suggestion
\* store that changes
StInit == SupInit /\ supDecision \in ShortDecisions

StNext ==
    \/ SupCallParallel /\ UNCHANGED <<stVars, extraVars>>
    \/ SupTaskDone /\ UNCHANGED <<stVars, extraVars>>
    \/ SupGathered /\ UNCHANGED <<stVars, extraVars>>
    \/ SupCallSequential /\ UNCHANGED <<stVars, extraVars>>
    \/ SupSeqDone /\ UNCHANGED <<stVars, extraVars>>
    \/ SupSynthesized /\ UNCHANGED <<stVars, extraVars>>
    \/ SupCallAgain /\ UNCHANGED <<stVars, suggestions, paRet, mtRet, mgRet, device_states, connected, devRet>>
    \/ StoreSuggestion /\ UNCHANGED <<stVars, supVars, mtRet, mgRet, device_states, connected, supCalls, devRet>>

SpecStateless == StInit /\ [][StNext]_vars

-----------------------------------------------------------------------------
(* C1 *)

\* C1: for every email and every LLM outcome analyze_email returns
\* success=true with priority and category inside the enumerations, and
\* never raises
C1_AnalyzeTotal ==
    azPc # "idle" =>
        /\ azPc = "returned"
        /\ azResult.success = TRUE
        /\ azResult.email_summary.priority \in Priorities
        /\ azResult.email_summary.category \in Categories

\* The call returned although the model answered a priority outside the
\* enumeration
C1_Witness ==
    /\ azPc = "returned"
    /\ azGateway.ai_enabled
    /\ azGateway.call = "response"
    /\ azGateway.content.form = "dict"
    /\ azGateway.content.priority = "high"
    /\ azResult.success = TRUE

-----------------------------------------------------------------------------
(* C2 *)

\* C2: after any sequence of cache_email calls the table holds at most one
\* row per identifier, and a call for an identifier already cached leaves
\* the table as it was and returns the existing row
C2_CacheEmailIdempotent ==
    /\ [](\A id \in MailIds : RowCount(cache, id) <= 1)
    /\ [][dbRet'.call \in CachedIds(cache) =>
              /\ cache' = cache
              /\ dbRet'.row = FirstById(cache, dbRet'.call)]_vars

\* A call found its identifier cached, with an analysis other than the one
\* stored
C2_Witness ==
    /\ dbRet.hit
    /\ RowCount(cache, dbRet.call) = 1
    /\ dbRet.row.processed
    /\ \E id \in MailIds : id # dbRet.call /\ RowCount(cache, id) = 1

-----------------------------------------------------------------------------
(* C3 *)

\* A call that is past its cache-hit test
Called(p) == pass[p].pc # "idle"

\* C3 as stated: for every limit, a call with force_refresh=false made when
\* at least min(limit,10) rows are inside the window is answered from the
\* cache with no call to the mail source and none to the LLM
C3_FastPathEveryLimit ==
    \A p \in PassIds :
        (/\ Called(p)
         /\ ~pass[p].force_refresh
         /\ pass[p].in_window >= Min(pass[p].limit, FastPathMin))
        => /\ pass[p].fast
           /\ pass[p].mail_calls = 0
           /\ pass[p].llm_calls = 0

\* C3 amended: the same for every limit >= 1
C3_FastPathPositiveLimit ==
    \A p \in PassIds :
        (/\ Called(p)
         /\ pass[p].limit >= 1
         /\ ~pass[p].force_refresh
         /\ pass[p].in_window >= Min(pass[p].limit, FastPathMin))
        => /\ pass[p].fast
           /\ pass[p].pc = "done"
           /\ pass[p].mail_calls = 0
           /\ pass[p].llm_calls = 0
           /\ Len(pass[p].result) = Min(pass[p].limit, pass[p].in_window)

\* The default limit answered from FastPathMin or more cached rows, fewer
\* than the limit
C3_Witness ==
    \E p \in PassIds :
        /\ pass[p].pc = "done"
        /\ pass[p].fast
        /\ pass[p].limit = DefaultLimit
        /\ pass[p].in_window < DefaultLimit
        /\ Len(pass[p].result) = pass[p].in_window

-----------------------------------------------------------------------------
(* C4 *)

AnalyzedIds(p) == {e.id : e \in Analyzed(p)}

\* C4: a sync pass that finds the cache non-empty with latest timestamp T
\* asks list_since(T) and analyses and caches only emails with a timestamp
\* strictly after T; one that finds it empty asks list_recent.  T is the
\* newest timestamp of the rows that were there when the pass began: a row
\* newer than T was cached by the pass or by get_email_by_id meanwhile
C4_DifferentialSync ==
    \A p \in PassIds :
        (Called(p) /\ ~pass[p].fast) =>
            /\ pass[p].listing = (IF pass[p].latest_date # NoDate THEN "since"
                                  ELSE "recent")
            /\ pass[p].mail_calls = 1
            /\ \A e \in Analyzed(p) : e.date > pass[p].latest_date
            /\ \A r \in Rows(cache) :
                   r.date > pass[p].latest_date =>
                       r.id \in AnalyzedIds(p) \/ ~r.processed

\* A finished list_since pass that analysed an email newer than T, T being
\* the date of a message still in the inbox
C4_Witness ==
    \E p \in PassIds :
        /\ pass[p].pc = "done"
        /\ pass[p].listing = "since"
        /\ Analyzed(p) # {}
        /\ \E i \in MailIds : mailbox[i] = pass[p].latest_date

-----------------------------------------------------------------------------
(* C5 *)

\* C5: no get_recent_emails call (fast path or sync) and no get_email_by_id
\* call removes a row: the cached identifiers after a step include those
\* before it
C5_CacheOnlyGrows == [][CachedIds(cache) \subseteq CachedIds(cache')]_vars

\* A sync pass and get_email_by_id have both added rows to a cache that had
\* rows before
C5_Witness ==
    \E p \in PassIds :
        /\ pass[p].pc = "done"
        /\ Analyzed(p) # {}
        /\ ArchiveIds \subseteq CachedIds(cache)
        /\ \E r \in Rows(cache) : r.id \in MailIds /\ ~r.processed

-----------------------------------------------------------------------------
(* C6 - C10: coordinate_agents *)

Listed == AgentsToUse(supDecision)

\* The listed names that are agents, in listed order
KnownListed == SelectSeq(Listed, LAMBDA n : n \in AgentNames)

\* The decision lists a set of agents: known names, none twice
IsSelection ==
    /\ \A i \in DOMAIN Listed : Listed[i] \in AgentNames
    /\ \A i, j \in DOMAIN Listed : Listed[i] = Listed[j] => i = j

\* The agents are through and the aggregate is built
Aggregated == supPc \in {"synth", "done", "failed"}

RunsOf(agent) == {k \in DOMAIN supTasks : supTasks[k].agent = agent}

LastRunOf(agent) == CHOOSE k \in RunsOf(agent) : \A h \in RunsOf(agent) : h <= k

\* What the aggregate should hold for run k: the run's own result, or
\* {success: false, error} if it raised
OwnEntry(k) ==
    [kind |-> IF supTasks[k].state = "raised" THEN "error" ELSE "result",
     agent |-> supTasks[k].agent, run |-> k]

\* C6: in parallel mode, for every selected subset of agents and every
\* assignment of success or failure, the aggregate holds a failure entry for
\* each agent that raised and the unmodified result of each agent that
\* succeeded; no failure aborts the call or keeps another agent from running
C6_ParallelIsolation ==
    (supDecision.parallel_execution /\ IsSelection) =>
        /\ supPc # "raised"
        /\ Aggregated =>
            /\ Len(supTasks) = Len(Listed)
            /\ \A k \in DOMAIN supTasks : supTasks[k].state # "pending"
            /\ DOMAIN supResults = {Listed[i] : i \in DOMAIN Listed}
            /\ \A k \in DOMAIN supTasks :
                   supResults[supTasks[k].agent] = OwnEntry(k)

\* A parallel call returned with one agent failed and another succeeded
C6_Witness ==
    /\ supDecision.parallel_execution
    /\ IsSelection
    /\ supPc = "done"
    /\ \E k \in DOMAIN supTasks : supTasks[k].state = "raised"
    /\ \E k \in DOMAIN supTasks : supTasks[k].state = "returned"

\* C7: for every routing decision, in both modes, the aggregate has an entry
\* under name X exactly when agent X was run, and the entry is the outcome
\* of X's own run
C7_EntriesMatchRuns ==
    supPc \in {"synth", "done", "failed", "raised"} =>
        \A name \in ListedNames :
            /\ name \in DOMAIN supResults <=> RunsOf(name) # {}
            /\ name \in DOMAIN supResults => supResults[name].agent = name

\* C8 as stated: in sequential mode the agents run in the fixed order
\* analyzer, responder, manager restricted to the selected ones, whatever
\* the listed order
C8_FixedOrder ==
    (~supDecision.parallel_execution /\ Aggregated) =>
        [k \in DOMAIN supTasks |-> supTasks[k].agent]
            = SelectSeq(<<"analyzer", "responder", "manager">>,
                        LAMBDA n : \E i \in DOMAIN Listed : Listed[i] = n)

\* C8 amended: in sequential mode the agents run one at a time, in the order
\* in which the routing decision lists them
C8_ListedOrder ==
    ~supDecision.parallel_execution =>
        /\ Cardinality({k \in DOMAIN supTasks : supTasks[k].state = "pending"}) <= 1
        /\ \A k \in DOMAIN supTasks :
               /\ k <= Len(KnownListed)
               /\ supTasks[k].agent = KnownListed[k]
               /\ supTasks[k].state = "pending" => k = Len(supTasks)
        /\ Aggregated => Len(supTasks) = Len(KnownListed)

\* A sequential call ran responder before analyzer, as listed
C8_Witness ==
    /\ ~supDecision.parallel_execution
    /\ supPc = "done"
    /\ Len(supTasks) = 2
    /\ supTasks[1].agent = "responder"
    /\ supTasks[2].agent = "analyzer"

\* C9: in sequential mode an exception of one agent is stored as
\* {success: false, error} under its name and every later selected agent
\* still runs: after the loop the aggregate has one entry per selected agent
C9_SequentialCapture ==
    ~supDecision.parallel_execution =>
        /\ supPc # "raised"
        /\ Aggregated =>
            /\ Len(supTasks) = Len(KnownListed)
            /\ \A k \in DOMAIN supTasks : supTasks[k].state # "pending"
            /\ DOMAIN supResults = {KnownListed[i] : i \in DOMAIN KnownListed}
            /\ \A name \in DOMAIN supResults :
                   supResults[name] = OwnEntry(LastRunOf(name))

\* A sequential call returned after its first agent raised and a later one
\* succeeded
C9_Witness ==
    /\ ~supDecision.parallel_execution
    /\ supPc = "done"
    /\ Len(supTasks) >= 2
    /\ supTasks[1].state = "raised"
    /\ supTasks[Len(supTasks)].state = "returned"
    /\ supResults[supTasks[1].agent].kind = "error"

\* C10: the synthesis step starts only after every selected agent has
\* completed, in both modes, never while an agent runs, and it is handed
\* the complete aggregate
C10_SynthesisAfterAgents ==
    /\ Aggregated =>
        /\ \A k \in DOMAIN supTasks : supTasks[k].state # "pending"
        /\ Len(supTasks) = Len(KnownListed)
        /\ supSynthInput = supResults
        /\ DOMAIN supSynthInput = {supTasks[k].agent : k \in DOMAIN supTasks}
    /\ ~Aggregated => supSynthInput = NoResults /\ supFinal = NoRecommendation

\* The synthesis call is in flight after two or more agents, one of which
\* raised
C10_Witness ==
    /\ supPc = "synth"
    /\ Len(supTasks) >= 2
    /\ \E k \in DOMAIN supTasks : supTasks[k].state = "raised"
    /\ \E k \in DOMAIN supTasks : supTasks[k].state = "returned"

-----------------------------------------------------------------------------
(* C11 - C12: _generate_final_recommendation *)

RecommendationFields ==
    {"recommended_actions", "priority_level", "summary", "next_steps"}

\* C11: whenever coordinate_agents returns, final_recommendation carries all
\* four fields; a response that does not have that structure gives the fixed
\* default
C11_RecommendationWellFormed ==
    supPc = "done" =>
        /\ DOMAIN supFinal = RecommendationFields
        /\ supFinal # FullRecommendation => supFinal = DefaultRecommendation

\* C12: a failure of the synthesis LLM call does not propagate:
\* coordinate_agents never ends by raising out of
\* _generate_final_recommendation
C12_SynthesisFailureContained == supPc # "failed"

-----------------------------------------------------------------------------
(* C13 - C14: route_email *)

\* C13: route_email never raises; when the LLM call fails or the response
\* cannot be parsed it returns the default decision (analyzer only,
\* priority normal, parallel_execution false, fallback reasoning)
C13_RouteNeverRaises ==
    /\ rtPc # "raised"
    /\ (rtPc = "done" /\ rtLlm.outcome # "json") => rtResult = DefaultDecision

\* C14: every decision route_email returns is well formed: a duplicate-free
\* list of known agents, a priority, a parallel-execution flag and a
\* reasoning
C14_DecisionWellFormed ==
    rtPc = "done" =>
        LET agents == rtResult.decision.agents_to_use
        IN  /\ rtResult.decision.has_agents
            /\ \A i \in DOMAIN agents : agents[i] \in AgentNames
            /\ \A i, j \in DOMAIN agents : agents[i] = agents[j] => i = j
            /\ rtResult.priority # "absent"
            /\ rtResult.reasoning # "absent"

-----------------------------------------------------------------------------
(* C15 - C16: reply generation *)

\* C15: generate_reply never raises and has no fallback draft: on an LLM
\* call failure or an unparsable response it returns success=false with an
\* error and reply_draft=null; a draft is present only when success=true
C15_ReplyNoFallback ==
    rpPc = "done" =>
        /\ ~rpReply.raised
        /\ rpIn.llm.outcome \in {"raise", "garbage"} =>
               rpReply.val = ReplyFailure
        /\ rpReply.val.reply_draft # NullDraft <=> rpReply.val.success
        /\ rpReply.val.success <=> rpReply.val.error = "none"

\* generate_reply returned a failure after the LLM call raised
C15_Witness ==
    /\ rpPc = "done"
    /\ rpIn.llm.outcome = "raise"
    /\ rpReply.val = ReplyFailure

\* C16: create_draft is called only after generate_reply returned
\* success=true, with the generated draft; when generation fails no draft is
\* created at the provider and the caller gets a failure without a draft
C16_DraftOnlyAfterSuccess ==
    /\ rpDrafts # <<>> =>
           /\ rpPc = "done"
           /\ rpReply.val.success
           /\ Len(rpDrafts) = 1
           /\ rpDrafts[1].body = rpReply.val.reply_draft.body
           /\ rpDrafts[1].subject = rpReply.val.reply_draft.subject
    /\ (rpPc = "done" /\ ~rpReply.val.success) =>
           /\ rpDrafts = <<>>
           /\ rpResponse = HttpError(500)
    /\ rpPc = "rejected" =>
           rpDrafts = <<>> /\ rpResponse.status \in {401, 404, 500}

\* The endpoint answered 500 after a failed generation, no draft created
C16_Witness ==
    /\ rpPc = "done"
    /\ ~rpReply.val.success
    /\ rpIn.provider = "ok"
    /\ rpResponse = HttpError(500)
    /\ rpDrafts = <<>>

-----------------------------------------------------------------------------
(* C17 - C18: filtering rules *)

\* The rules read by the call whose matcher matches the email
MatchingRules(store, email) ==
    {i \in DOMAIN store :
        ~MatcherRaises(store[i]) /\ EmailMatchesFilter(email, store[i])}

FirstMatching(store, email) ==
    CHOOSE i \in MatchingRules(store, email) :
        \A j \in MatchingRules(store, email) : i <= j

\* C17: should_filter_email returns the decision of the first active rule,
\* in stored order, whose matcher matches: filtered iff that rule's action is
\* exclude; no later rule overrides it; no matching rule, not filtered
C17_FirstMatchWins ==
    fltResult.called =>
        fltResult.ret =
            /\ MatchingRules(fltResult.store, fltEmail) # {}
            /\ fltResult.store[FirstMatching(fltResult.store, fltEmail)].action
                   = "exclude"

\* C18: apply_filtering_rule adds exactly one rule with a structured matcher
\* when the conversion succeeds; when the response does not have that
\* structure it returns false and the store is unchanged
C18_OnlyStructuredRules ==
    [][/\ rules' # rules =>
           /\ Len(rules') = Len(rules) + 1
           /\ SubSeq(rules', 1, Len(rules)) = rules
           /\ rules'[Len(rules')] \in StructuredConfigs
           /\ fltRet'.ret
       /\ (fltRet'.called /\ ~fltRet'.ret) => rules' = rules]_vars

-----------------------------------------------------------------------------
(* C19: get_email_by_id *)

\* The provider has a message with this identifier
KnownToProvider(id) == id \in MailIds /\ mailbox[id] # NoDate

\* C19: a cached id is answered from the cache without a provider call;
\* otherwise the email is fetched and, when the fetch succeeds, the id is
\* cached when the call returns; an id neither cached nor known to the
\* provider gives null and leaves the cache unchanged
C19_ByIdCacheFirst ==
    byId.called =>
        LET row == FirstById(byId.before, byId.id)
        IN  /\ row # NoRow =>
                   /\ byId.mail_calls = 0
                   /\ byId.ret = RowContent(row)
                   /\ cache = byId.before
            /\ row = NoRow =>
                   /\ byId.mail_calls = 1
                   /\ byId.ret # NullEmail =>
                          /\ byId.id \in CachedIds(cache)
                          /\ byId.ret.id = byId.id
                          /\ byId.ret.date = mailbox[byId.id]
                   /\ (byId.outcome = "ok" /\ KnownToProvider(byId.id)) =>
                          byId.ret # NullEmail
            /\ (row = NoRow /\ ~KnownToProvider(byId.id)) =>
                   byId.ret = NullEmail /\ cache = byId.before

\* A live fetch succeeded on an id that was not cached
C19_Witness ==
    /\ byId.called
    /\ FirstById(byId.before, byId.id) = NoRow
    /\ byId.ret # NullEmail
    /\ byId.id \in CachedIds(cache)

-----------------------------------------------------------------------------
(* C20: re-analysis of a cached email *)

\* C20: when an email whose id is already cached is analysed again, its
\* record is updated in place: after the caching step the analysis payload
\* and the processed flag are those of the latest analysis, and there is
\* still exactly one record for the id
C20_UpdatedInPlace ==
    (dbRet.call \in MailIds /\ dbRet.analysis # NoAnalysis) =>
        /\ RowCount(cache, dbRet.call) = 1
        /\ FirstById(cache, dbRet.call).analysis_result = dbRet.analysis
        /\ FirstById(cache, dbRet.call).processed

-----------------------------------------------------------------------------
(* C21: filtering before analysis and caching *)

-----------------------------------------------------------------------------
(* C22: the retention window *)

\* The rows whose date lies inside the 14-day window
WindowRows == {r \in Rows(cache) : r.date >= now - RetentionDays * TicksPerDay}

\* C22: every summary returned by get_recent_emails, on the fast path and
\* after a sync, belongs to a cached record dated inside the 14-day window,
\* and at most limit summaries are returned; older records are never returned
C22_ResultInsideWindow ==
    pass[1].pc = "done" =>
        /\ Len(pass[1].result) <= pass[1].limit
        /\ \A k \in DOMAIN pass[1].result :
               \E r \in WindowRows : r.id = pass[1].result[k]
        /\ \A k, h \in DOMAIN pass[1].result :
               pass[1].result[k] = pass[1].result[h] => k = h

\* A call returned summaries while the cache held a record older than the
\* window, and the limit cut the answer short
C22_Witness ==
    /\ pass[1].pc = "done"
    /\ pass[1].result # <<>>
    /\ Rows(cache) \ WindowRows # {}
    /\ Len(pass[1].result) = pass[1].limit
    /\ Cardinality(WindowRows) > pass[1].limit

\* The identifiers of a pass's new_emails
NewIds(p) == {pass[p].new_emails[k].id : k \in DOMAIN pass[p].new_emails}

UrgentConfirmCase ==
    /\ azPc = "returned"
    /\ azEmail.subject = <<"shikyu", "kakunin">>
    /\ ~azGateway.ai_enabled \/ azGateway.call = "raise"

\* C30 as stated: with the LLM unavailable that subject gives priority
\* urgent and category confirm_only
C30_UrgentConfirmOnly ==
    UrgentConfirmCase =>
        /\ azResult.email_summary.priority = "urgent"
        /\ azResult.email_summary.category = "confirm_only"

\* C30 amended: with the LLM unavailable that subject gives priority urgent
\* and category reply_needed (kakunin is one of the reply keywords)
C30_UrgentReplyNeeded ==
    UrgentConfirmCase =>
        /\ azResult.success = TRUE
        /\ ~azResult.ai_analyzed
        /\ azResult.email_summary.priority = "urgent"
        /\ azResult.email_summary.category = "reply_needed"

\* The subject was analysed after the gateway's call raised
C30_Witness ==
    /\ UrgentConfirmCase
    /\ azGateway.ai_enabled
    /\ azResult.email_summary.category = "reply_needed"

-----------------------------------------------------------------------------
(* C25 - C29: the learning service *)

\* C25: get_similar_corrections never raises; against an empty correction
\* store, or when the store query fails, it returns the empty list; and it
\* never returns more than limit results
C25_SimilarTotal ==
    lsRet.op = "similar" =>
        /\ ~lsRet.ret.raised
        /\ (corrections = <<>> \/ lsRet.outcome = "raise") => lsRet.ret.val = <<>>
        /\ Len(lsRet.ret.val) <= lsRet.limit

\* A query with limit 1 over a store holding two corrections for the
\* recipient returned one of them
C25_Witness ==
    /\ lsRet.op = "similar"
    /\ lsRet.outcome = "ok"
    /\ lsRet.limit = 1
    /\ lsRet.recipient \in Recipients
    /\ Cardinality({k \in DOMAIN corrections :
                        corrections[k].recipient = lsRet.recipient}) = 2
    /\ Len(lsRet.ret.val) = 1

\* C26: starting from no profile, after one save_correction whose corrected
\* text contains the high-formality marker and whose original text does not,
\* get_recipient_profile returns a profile with formality_level = high
\* (stated for the runs in which the profile was written and is read back)
C26_HighFormalityLearned ==
    (/\ lsRet.op = "profile"
     /\ lsRet.outcome = "ok"
     /\ Len(corrections) = 1
     /\ Len(profiles) = 1
     /\ corrections[1].recipient = lsRet.recipient
     /\ Contains(corrections[1].corrected, "desumasu")
     /\ ~Contains(corrections[1].original, "desumasu"))
    => /\ ~lsRet.ret.null
       /\ "formality_level" \in DOMAIN lsRet.ret.preferences
       /\ lsRet.ret.preferences["formality_level"] = "high"

\* The values the detectors found for a list key in the corrections saved
\* for a recipient
DetectedSoFar(recipient, key) ==
    {AnalyzeCorrection(corrections[k].original, corrections[k].corrected)[key][1] :
        k \in {j \in DOMAIN corrections :
                  /\ corrections[j].recipient = recipient
                  /\ key \in DOMAIN AnalyzeCorrection(corrections[j].original,
                                                       corrections[j].corrected)}}

\* C27: after any sequence of saved corrections every list-valued
\* preference key of a profile holds a flat list of values detected so far
\* for its recipient: no list nested inside the list, no value repeated
C27_ListsFlatAndDistinct ==
    \A k \in DOMAIN profiles :
        \A key \in ListKeys \cap DOMAIN profiles[k].preferences :
            LET list == profiles[k].preferences[key]
            IN  /\ \A i \in DOMAIN list :
                       /\ ~list[i].nested
                       /\ list[i] \in DetectedSoFar(profiles[k].recipient, key)
                /\ \A i, j \in DOMAIN list : list[i] = list[j] => i = j

\* C28: after any sequence of save_correction calls the profile store holds
\* one profile per recipient, that of the most recent update
C28_OneProfilePerRecipient ==
    \A r \in Recipients : Cardinality(ProfilesOf(profiles, r)) <= 1

\* C29: save_correction never raises; when persisting the correction fails
\* nothing is recorded and no profile update is made; a successful call
\* appends exactly one CorrectionRecord and makes exactly one profile update,
\* for the recipient of the correction
C29_SaveCorrectionContained ==
    lsRet.op = "save" =>
        /\ ~lsRet.ret.raised
        /\ lsRet.add = "raise" =>
               /\ lsRet.ret.val = FALSE
               /\ corrections = lsRet.corrections_before
               /\ profiles = lsRet.profiles_before
               /\ lsRet.updates = 0
        /\ lsRet.ret.val = TRUE =>
               /\ corrections =
                      Append(lsRet.corrections_before,
                             CorrectionRecord(lsRet.original, lsRet.corrected,
                                              lsRet.recipient))
               /\ lsRet.updates = 1
               /\ Len(profiles) <= Len(lsRet.profiles_before) + 1
               /\ \A k \in DOMAIN profiles :
                      \/ k \in DOMAIN lsRet.profiles_before
                         /\ profiles[k].id = lsRet.profiles_before[k].id
                      \/ profiles[k].recipient = lsRet.recipient

\* A second correction was saved and its profile update written
C29_Witness ==
    /\ lsRet.op = "save"
    /\ lsRet.ret.val = TRUE
    /\ Len(lsRet.corrections_before) = 1
    /\ Len(profiles) = Len(lsRet.profiles_before) + 1

-----------------------------------------------------------------------------
(* C34 - C36: the sync pass *)

\* C34: a sync pass never analyses, and so never caches, an email whose
\* timestamp is older than the retention window, whatever the newest cached
\* timestamp is
C34_AnalysisInsideWindow ==
    \A e \in Analyzed(1) : e.date >= Cutoff(now, RetentionDays)

\* What a pass fetches when the provider answers and every message's content
\* is read
FullFetch(p) ==
    IF pass[p].latest_date # NoDate
    THEN GetEmailsSinceDate(pass[p].latest_date, SyncMaxResults, "ok", {}).val
    ELSE GetRecentEmailsOptimized(RetentionDays, SyncMaxResults, "ok", {}).val

\* C35: once a sync pass that got the provider's full answer completes, every
\* inbox email inside the retention window that no active rule excludes is in
\* the cache
C35_NothingSkipped ==
    (/\ pass[1].pc = "done"
     /\ ~pass[1].fast
     /\ pass[1].new_emails = FilterEmails(FullFetch(1), "ok"))
    => \A i \in MailIds :
           (/\ mailbox[i] # NoDate
            /\ mailbox[i] >= Cutoff(now, RetentionDays)
            /\ ~ShouldFilterEmail(EmailOf(i)))
           => i \in CachedIds(cache)

-----------------------------------------------------------------------------
(* C38: malformed rules in the store *)

\* The active rules whose filter_config has the structure, in stored order
WellFormedRules(store) == SelectSeq(store, LAMBDA c : c \in StructuredConfigs)

\* C38: the decision of should_filter_email is the one the well-formed active
\* rules give: a malformed stored rule, wherever it sits, does not keep a
\* matching well-formed exclude rule from filtering the email
C38_MalformedRuleIgnored ==
    fltResult.called =>
        fltResult.ret =
            ShouldFilterFrom(fltEmail, WellFormedRules(fltResult.store), 1)


-----------------------------------------------------------------------------
(* C37: analyze_email_patterns *)

\* C37: analyze_email_patterns never raises; when the LLM call fails, the
\* response does not parse or a proposed suggestion is malformed it returns
\* the failure result and the store holds no suggestion from that call; when
\* no email is flagged as automated it makes no LLM call and stores nothing
C37_PatternsAllOrNothing ==
    paRet.called =>
        LET flagged == \E k \in DOMAIN paRet.emails :
                           DetectAutomatedCharacteristics(paRet.emails[k])
            failed == \/ paRet.llm.outcome \in {"raise", "garbage"}
                      \/ ~paRet.llm.has_suggestions
                      \/ \E k \in DOMAIN paRet.llm.suggestions :
                             ~paRet.llm.suggestions[k].complete
        IN  /\ ~paRet.ret.raised
            /\ (flagged /\ failed) =>
                   /\ paRet.ret.val = FailureResult
                   /\ suggestions = paRet.before
            /\ ~flagged =>
                   /\ paRet.llm_calls = 0
                   /\ suggestions = paRet.before

-----------------------------------------------------------------------------
(* C31: suggest_meeting_times *)

\* C31: when the LLM call fails, suggest_meeting_times returns exactly three
\* slots, the fixed 14:00-15:00 slot on each of the next three weekdays
\* after the day of the call, whatever day of the week that is
C31_ThreeWeekdaySlots ==
    (mtRet.called /\ mtRet.llm.outcome \in {"raise", "garbage"}) =>
        /\ Len(mtRet.ret) = 3
        /\ \A k \in DOMAIN mtRet.ret :
               /\ Weekday(mtRet.ret[k].day) < FirstWeekendDay
               /\ mtRet.ret[k].time = "14:00-15:00"
        /\ mtRet.ret = NextThreeWeekdays(mtRet.today, 0, <<>>)

-----------------------------------------------------------------------------
(* C32: manage_attachments *)

\* C32: without attachments manage_attachments succeeds with
\* files_processed = 0 and no LLM call; with attachments and a plan call
\* that fails or does not parse it succeeds, files_processed is the number
\* of attachments, and every attachment without a plan entry of its
\* filename gets the default classification
C32_AttachmentsHandled ==
    mgRet.called =>
        /\ mgRet.attachments = <<>> =>
               /\ mgRet.ret.success
               /\ mgRet.ret.files_processed = 0
               /\ mgRet.llm_calls = 0
        /\ (mgRet.attachments # <<>>
            /\ mgRet.llm.outcome \in {"raise", "garbage"}) =>
               /\ mgRet.ret.success
               /\ mgRet.ret.files_processed = Len(mgRet.attachments)
               /\ \A k \in DOMAIN mgRet.attachments :
                      LET filename == GetFilename(mgRet.attachments[k],
                                                  "unknown_file")
                          plan == DefaultPlan(mgRet.attachments)
                          file == mgRet.ret.processed_files[k]
                      IN  (\A j \in DOMAIN plan.file_classifications :
                               plan.file_classifications[j].filename
                                   # filename)
                          => /\ file.original_filename = filename
                             /\ file.category = "other"
                             /\ file.importance = "medium"
                             /\ file.saved_location[2] = "attachments"

\* The plan call raised for an email with a named and an unnamed attachment,
\* and both files were processed
C32_Witness ==
    /\ mgRet.called
    /\ mgRet.llm.outcome = "raise"
    /\ Len(mgRet.attachments) = 2
    /\ mgRet.attachments[1].has_filename
    /\ ~mgRet.attachments[2].has_filename
    /\ mgRet.ret.success
    /\ mgRet.ret.files_processed = 2

-----------------------------------------------------------------------------
(* C39: the accessory devices *)

\* C39: a command changes a device's state only while the device is
\* connected, and a command to a disconnected device is rejected; connect
\* and disconnect change only the connected flag of the named device; a
\* request naming an unknown device id is rejected and changes nothing
C39_OnlyConnectedDevicesChange ==
    /\ devRet.op \in {"connect", "disconnect", "command"} =>
           /\ devRet.device_id \notin DeviceIds =>
                  /\ devRet.response = NotFound
                  /\ device_states = devRet.before
           /\ \A d \in DeviceIds :
                  d # devRet.device_id => device_states[d] = devRet.before[d]
    /\ (devRet.op = "command" /\ devRet.device_id \in DeviceIds) =>
           /\ ~devRet.before[devRet.device_id].connected =>
                  /\ devRet.response = NotConnected
                  /\ device_states = devRet.before
           /\ device_states[devRet.device_id].connected
                  = devRet.before[devRet.device_id].connected
    /\ (devRet.op \in {"connect", "disconnect"}
        /\ devRet.device_id \in DeviceIds) =>
           device_states[devRet.device_id] =
               [devRet.before[devRet.device_id] EXCEPT
                    !.connected = (devRet.op = "connect")]
    /\ devRet.op = "acc_command" =>
           /\ connected = devRet.before
           /\ ~devRet.before => devRet.response = "error"

\* A command to the LED controller was rejected while it was disconnected
\* although an earlier command had changed its colour while connected
C39_Witness ==
    /\ devRet.op = "command"
    /\ devRet.device_id = "adk-001"
    /\ devRet.command.command_type = "set_brightness"
    /\ devRet.response = NotConnected
    /\ device_states["adk-001"].color = "#FF0000"
    /\ ~device_states["adk-001"].connected


-----------------------------------------------------------------------------
(* C33: the supervisor keeps nothing between calls *)

\* Every entry of results comes from an agent run of the call in progress
\* and is stored under a name its routing decision lists
OwnResults ==
    \A n \in DOMAIN supResults :
        /\ \E i \in DOMAIN AgentsToUse(supDecision) :
               AgentsToUse(supDecision)[i] = n
        /\ supResults[n].run \in DOMAIN supTasks
        /\ supResults[n].agent = supTasks[supResults[n].run].agent
        /\ (supResults[n].kind = "error")
               = (supTasks[supResults[n].run].state = "raised")

\* C33: a coordinate_agents call leaves the email cache, the rule store,
\* the suggestion store, the correction store and the profile store as
\* they are, and its results hold nothing of an earlier call
C33_NoCrossCallState ==
    /\ []OwnResults
    /\ [][supVars' # supVars =>
              UNCHANGED <<cache, rules, suggestions, corrections, profiles>>]_vars

\* A later call, about the manager only, is over after an earlier call
\* while the suggestion store was written in between
C33_Witness ==
    /\ supCalls >= 1
    /\ supPc = "done"
    /\ supDecision.agents_to_use = <<"manager">>
    /\ DOMAIN supResults = {"manager"}
    /\ suggestions # <<>>

====
